---- MODULE Spec2Model ----
(***************************************************************************)
(* Scheduling state machine of the grammar bot: due items (detour ->       *)
(* revisit -> check), the per-learner user state, attempts, the Why cache  *)
(* and the handlers that move them (answer, Next, Why, start_placement,    *)
(* startup recovery), together with the due_flow functions.                *)
(*                                                                         *)
(* Time is counted in days.  A rule key "unit_1_A" is the pair             *)
(* <<unit, section>>, so that key.startswith(unit_key + "_") is key[1] =   *)
(* unit.  A JSON list is a sequence, and the JSON null of an empty list is *)
(* the empty sequence.  Row ids are positions in the tables; 0 is None.    *)
(***************************************************************************)
EXTENDS Integers, Sequences, FiniteSets, TLC

VARIABLES approved, due, attempts, why, st, gen, now, ev, flight

vars == <<approved, due, attempts, why, st, gen, now, ev, flight>>

(* ---------------------------- bounds ----------------------------------- *)
MaxAttempts == 4
MaxFree == 3
MaxDue == 4
MaxTime == 9
MaxCalls == 2
MaxRun == 14
MaxRows == 3
MaxCallTime == 2
MaxConc == 5
MaxTwo == 2
LongLen == 20

(* ------------------------ program constants ---------------------------- *)
RevisitDelay == 2
CheckDelay == 7
DetourCap == 4
RevisitCap == 2
CheckCap == 1
RequiredCorrect == 2
ShownCap == 2
ClampMax == 6
BoundedIndexMax == 2
RulesPerUnit == 2
ShortLen == 20
ShortLimit == 2
LongLimit == 3

AllUsers == {1, 2}
Kinds == {"detour", "revisit", "check"}
Verdicts == {"correct", "almost", "wrong"}
GenOutcomes == {"ok", "rejected", "error"}
WhyOutcomes == {"correct", "wrong", "error"}

(* --------------------------- content ----------------------------------- *)
(* The unit_exercises table as imported: u1 has six exercises (index 7 is  *)
(* beyond the clamp), u3 has a single one-item exercise, u2 has none and   *)
(* depends on generation.  An item is the list of its rule keys.           *)
Units == {"u1", "u2", "u3"}
UnitNum(unit) == CASE unit = "u1" -> 1 [] unit = "u2" -> 2 [] OTHER -> 3
KindNum(kind) == CASE kind = "detour" -> 1 [] kind = "revisit" -> 2 [] OTHER -> 3

StaticIndices(unit) ==
    CASE unit = "u1" -> {1, 2, 3, 4, 5, 7}
      [] unit = "u3" -> {1}
      [] OTHER -> {}

StaticItems(unit, idx) ==
    IF unit = "u1"
    THEN IF idx = 2
         THEN << <<<<"u1", "A">>>>, <<<<"u1", "C">>>>, <<<<"u1", "B">>>> >>
         ELSE << <<<<"u1", "A">>>>, <<<<"u1", "B">>>> >>
    ELSE << <<>> >>

GeneratedItems == << <<>>, <<>> >>

(* rules_i18n_v2 rows of a unit, sorted by section *)
UnitRules(unit) ==
    CASE unit = "u1" -> << <<"u1", "A">>, <<"u1", "B">> >>
      [] unit = "u2" -> << <<"u2", "A">> >>
      [] OTHER -> <<>>

(* placement_items: id = order_index = position *)
PlacementItems ==
    << [unit |-> "u3", study |-> <<"u3">>],
       [unit |-> "u1", study |-> <<"u1", "u2">>],
       [unit |-> "u2", study |-> <<>>] >>

(* --------------------------- helpers ----------------------------------- *)
Min(a, b) == IF a < b THEN a ELSE b
Max(a, b) == IF a > b THEN a ELSE b
Range(s) == {s[i] : i \in 1..Len(s)}

SetMax(S) == CHOOSE x \in S : \A y \in S : y <= x
SetMin(S) == CHOOSE x \in S : \A y \in S : x <= y

RECURSIVE SortedSeq(_)
SortedSeq(S) == IF S = {} THEN <<>> ELSE <<SetMin(S)>> \o SortedSeq(S \ {SetMin(S)})

RECURSIVE Dedup(_, _)
Dedup(s, seen) ==
    IF s = <<>> THEN <<>>
    ELSE IF Head(s) \in seen THEN Dedup(Tail(s), seen)
         ELSE <<Head(s)>> \o Dedup(Tail(s), seen \cup {Head(s)})

Take(s, n) == SubSeq(s, 1, Min(n, Len(s)))

RECURSIVE Reverse(_)
Reverse(s) == IF s = <<>> THEN <<>> ELSE Reverse(Tail(s)) \o <<Head(s)>>

Rotate(s, k) == SubSeq(s, k + 1, Len(s)) \o SubSeq(s, 1, k)

RECURSIVE Flatten(_)
Flatten(ss) == IF ss = <<>> THEN <<>> ELSE Head(ss) \o Flatten(Tail(ss))

(* the sequence f with every element evaluated *)
AsTuple(f) == f \o <<>>

(* LET x == v IN F(x), with v evaluated once *)
Let(v, F(_)) == CHOOSE y \in {F(x) : x \in {v}} : TRUE

(* ------------------------------ normalize.py --------------------------- *)
(* a text is a sequence of characters; "rsquo" stands for the typographic  *)
(* apostrophe, "nl" for a line break, "Idot" for the capital I with a dot  *)
(* above (U+0130), "combdot" for the combining dot above (U+0307, a mark,  *)
(* not a letter), "eth1" for the Ethiopic digit one (U+1369), which        *)
(* str.isdigit accepts and int() rejects                                   *)
LowerLetters == {"a", "b", "c", "d", "e", "i", "n", "o", "s", "t"}
UpperLetters == {"A", "B", "C", "D", "Idot"}
Letters == LowerLetters \cup UpperLetters
Digits == {"1", "2", "5"}
Whitespace == {" ", "nl"}
TrailingMarks == {".", "!", "?", ","}

(* str.casefold of one character: a text, of two characters for "Idot" *)
casefold(c) ==
    IF c = "A" THEN <<"a">> ELSE IF c = "B" THEN <<"b">>
    ELSE IF c = "C" THEN <<"c">> ELSE IF c = "D" THEN <<"d">>
    ELSE IF c = "Idot" THEN <<"i", "combdot">> ELSE <<c>>

(* str.casefold *)
casefold_text(s) == Flatten(AsTuple([i \in 1..Len(s) |-> casefold(s[i])]))

upper(c) ==
    IF c = "a" THEN "A" ELSE IF c = "b" THEN "B" ELSE IF c = "c" THEN "C"
    ELSE IF c = "d" THEN "D" ELSE c

(* the characters of s at the positions of the set P, in order *)
Pick(s, P) ==
    AsTuple([k \in 1..Cardinality(P) |->
                s[CHOOSE p \in P : Cardinality({q \in P : q <= p}) = k]])

nfkc_normalize(s) ==
    AsTuple([i \in 1..Len(s) |-> IF s[i] = "rsquo" THEN "'" ELSE s[i]])

(* str.strip() *)
strip(s) ==
    Let({i \in 1..Len(s) : s[i] \notin Whitespace}, LAMBDA P :
        IF P = {} THEN <<>> ELSE SubSeq(s, SetMin(P), SetMax(P)))

(* re.sub(r"\s+", " ", s) *)
collapse_spaces(s) ==
    Let(AsTuple([i \in 1..Len(s) |-> IF s[i] \in Whitespace THEN " " ELSE s[i]]),
        LAMBDA t :
        Pick(t, {i \in 1..Len(t) : ~(t[i] = " " /\ i > 1 /\ t[i - 1] = " ")}))

(* while s and s[-1] in ".!?,": s = s[:-1] *)
strip_trailing_marks(s) ==
    Let({i \in 1..Len(s) : s[i] \notin TrailingMarks}, LAMBDA P :
        IF P = {} THEN <<>> ELSE SubSeq(s, 1, SetMax(P)))

norm_text(s) ==
    Let(nfkc_normalize(s), LAMBDA a : Let(strip(a), LAMBDA b : collapse_spaces(b)))

norm_answer_text(s) ==
    Let(norm_text(s), LAMBDA a :
    Let(strip_trailing_marks(a), LAMBDA b :
    Let(strip(b), LAMBDA c : collapse_spaces(c))))

letters_only_keeps_apostrophe(s, preserve_spaces) ==
    IF preserve_spaces
    THEN AsTuple([i \in 1..Len(s) |->
                     IF s[i] \in Letters \cup {"'"} THEN s[i] ELSE " "])
    ELSE Pick(s, {i \in 1..Len(s) : s[i] \in Letters \cup {"'"}})

letters_only(s, preserve_spaces) ==
    IF preserve_spaces
    THEN AsTuple([i \in 1..Len(s) |-> IF s[i] \in Letters THEN s[i] ELSE " "])
    ELSE Pick(s, {i \in 1..Len(s) : s[i] \in Letters})

norm_cmp_text(s) ==
    Let(norm_answer_text(s), LAMBDA a :
    Let(letters_only(a, FALSE), LAMBDA b :
    Let(Pick(b, {i \in 1..Len(b) : b[i] \notin Whitespace}), LAMBDA c :
        casefold_text(c))))

(* ------------------------------- grader.py ----------------------------- *)
(* one row of the distance table, row i for the character ca of a:         *)
(* cur[0] = i and cur[j] = min(insert, delete, replace) with                *)
(* insert = cur[j-1] + 1, delete = prev[j] + 1, replace = prev[j-1] + cost; *)
(* the chain of inserts is written out (base is min(delete, replace))      *)
LevRow(prev, i, ca, b) ==
    Let(AsTuple([k \in 1..Len(b) |->
            Min(prev[k + 1] + 1, prev[k] + (IF ca # b[k] THEN 1 ELSE 0))]),
        LAMBDA base :
            AsTuple([j \in 1..(Len(b) + 1) |->
                Let({i + (j - 1)} \cup {base[k] + (j - 1 - k) : k \in 1..(j - 1)},
                    LAMBDA S : SetMin(S))]))

RECURSIVE LevRows(_, _, _, _)
LevRows(prev, a, b, i) ==
    IF i > Len(a) THEN prev
    ELSE Let(LevRow(prev, i, a[i], b), LAMBDA cur : LevRows(cur, a, b, i + 1))

levenshtein(a, b) ==
    IF a = b THEN 0
    ELSE IF a = <<>> THEN Len(b)
    ELSE IF b = <<>> THEN Len(a)
    ELSE Let(IF Len(a) < Len(b) THEN b ELSE a, LAMBDA x :
         Let(IF Len(a) < Len(b) THEN a ELSE b, LAMBDA y :
             LevRows(AsTuple([j \in 1..(Len(y) + 1) |-> j - 1]), x, y, 1)[Len(y) + 1]))

is_close(a, b) ==
    IF a = <<>> \/ b = <<>> THEN FALSE
    ELSE levenshtein(a, b)
             <= (IF Max(Len(a), Len(b)) <= ShortLen THEN ShortLimit ELSE LongLimit)

(* None *)
NoneOption == <<"None">>

(* missing and extra are None unless given; the verdict "ValueError"      *)
(* stands for the exception raised in place of a result                    *)
GradeResult(verdict, user_answer_norm, canonical, note) ==
    [verdict |-> verdict, user_answer_norm |-> user_answer_norm,
     canonical |-> canonical, note |-> note,
     missing |-> <<NoneOption>>, extra |-> <<NoneOption>>]

(* the comparison forms of the canonical and of the non-empty variants *)
Targets(canonical_display, accepted_variants) ==
    Let(SelectSeq(accepted_variants, LAMBDA x : x # <<>>), LAMBDA vs :
        <<norm_cmp_text(canonical_display)>>
            \o AsTuple([i \in 1..Len(vs) |-> norm_cmp_text(vs[i])]))

grade_freetext(user, canonical, accepted_variants, mode) ==
    Let(norm_answer_text(user), LAMBDA user_norm :
    Let(norm_cmp_text(user), LAMBDA user_cmp :
    Let(strip(canonical), LAMBDA canonical_display :
    Let(Targets(canonical_display, accepted_variants), LAMBDA targets :
        IF user_cmp # <<>> /\ user_cmp \in Range(targets)
        THEN GradeResult("correct", user_norm, canonical_display, "")
        ELSE Let(/\ user_cmp # <<>> /\ canonical_display # <<>>
                 /\ \E i \in 1..Len(targets) :
                       targets[i] # <<>> /\ is_close(user_cmp, targets[i]),
                 LAMBDA close :
                 IF close /\ mode = "easy"
                 THEN GradeResult("correct", user_norm, canonical_display, "")
                 ELSE IF close /\ mode \in {"normal", "strict"}
                 THEN GradeResult("almost", user_norm, canonical_display, "")
                 ELSE GradeResult("wrong", user_norm, canonical_display, ""))))))


(* Python's None among the mapped options *)

(* s cut at the separators, every part stripped, the empty parts dropped *)
Parts(s, seps) ==
    Let({0, Len(s) + 1} \cup {i \in 1..Len(s) : s[i] \in seps}, LAMBDA cuts :
    Let(AsTuple([k \in 1..Cardinality(cuts) |->
                    CHOOSE p \in cuts : Cardinality({q \in cuts : q <= p}) = k]),
        LAMBDA at :
    Let(AsTuple([k \in 1..(Len(at) - 1) |->
                    strip(SubSeq(s, at[k] + 1, at[k + 1] - 1))]),
        LAMBDA parts : SelectSeq(parts, LAMBDA x : x # <<>>))))

(* normalize.split_tokens: the separators are comma, semicolon, line break *)
split_tokens(s) ==
    Let(nfkc_normalize(s), LAMBDA a : Parts(a, {",", ";", "nl"}))

split_user_tokens(user) ==
    Let(split_tokens(user), LAMBDA tokens :
    Let(strip(user), LAMBDA raw :
    Let(Parts(raw, Whitespace), LAMBDA space_parts :
        IF /\ Len(tokens) = 1 /\ raw # <<>> /\ "," \notin Range(raw)
           /\ Len(space_parts) > 1
           /\ \A i \in 1..Len(space_parts) :
                 /\ Len(space_parts[i]) = 1
                 /\ space_parts[i][1] \in Letters \cup Digits \cup {"eth1"}
        THEN space_parts
        ELSE tokens)))

(* chr(ord("A") + i): the letters that name the first options *)
LetterKeys == <<"A", "B", "C", "D">>
LetterIndex(c) ==
    IF \E i \in 1..Len(LetterKeys) : LetterKeys[i] = c
    THEN CHOOSE i \in 1..Len(LetterKeys) : LetterKeys[i] = c
    ELSE 0

isdigit(t) == t # <<>> /\ \A i \in 1..Len(t) : t[i] \in Digits \cup {"eth1"}

(* int(t) raises ValueError *)
IntRaises(t) == \E i \in 1..Len(t) : t[i] \notin Digits

(* an exception in place of a mapped option *)
Raised == <<"ValueError">>

DigitValue(c) == IF c = "1" THEN 1 ELSE IF c = "2" THEN 2 ELSE 5

RECURSIVE ToInt(_)
ToInt(t) ==
    IF t = <<>> THEN 0
    ELSE 10 * ToInt(SubSeq(t, 1, Len(t) - 1)) + DigitValue(t[Len(t)])

(* _normalize_option_map(options).get(key): the first option of the key *)
OptionForKey(options, key) ==
    Let({i \in 1..Len(options) : norm_cmp_text(options[i]) = key}, LAMBDA at :
        IF key = <<>> \/ at = {} THEN NoneOption ELSE options[SetMin(at)])

MapToken(t0, options) ==
    IF Len(t0) = 1 /\ LetterIndex(upper(t0[1])) \in 1..Len(options)
    THEN options[LetterIndex(upper(t0[1]))]
    ELSE IF isdigit(t0)
    THEN IF IntRaises(t0) THEN Raised
         ELSE Let(ToInt(t0), LAMBDA idx :
                  IF 1 <= idx /\ idx <= Len(options) THEN options[idx]
                  ELSE NoneOption)
    ELSE Let(norm_cmp_text(t0), LAMBDA t_cmp : OptionForKey(options, t_cmp))

map_user_selections(user, options) ==
    Let(split_user_tokens(user), LAMBDA tokens :
    Let(AsTuple([k \in 1..Len(tokens) |-> MapToken(tokens[k], options)]),
        LAMBDA mapped :
        IF Raised \in Range(mapped) THEN <<Raised>>
        ELSE Let(SelectSeq(mapped, LAMBDA x : x # NoneOption), LAMBDA valid :
                 Dedup(valid, {}))))

(* choices.resolve_choice *)
resolve_choice(user_input, options) ==
    Let(norm_text(user_input), LAMBDA cleaned :
        IF options = <<>> \/ cleaned = <<>> THEN NoneOption
        ELSE IF /\ Len(cleaned) = 1 /\ cleaned[1] \in Letters
                /\ LetterIndex(upper(cleaned[1])) \in 1..Len(options)
        THEN options[LetterIndex(upper(cleaned[1]))]
        ELSE IF isdigit(cleaned) /\ IntRaises(cleaned) THEN Raised
        ELSE IF isdigit(cleaned) /\ ToInt(cleaned) \in 1..Len(options)
        THEN options[ToInt(cleaned)]
        ELSE Let(casefold_text(cleaned), LAMBDA key :
             Let({i \in 1..Len(options) :
                     Let(norm_text(options[i]), LAMBDA o : casefold_text(o) = key)},
                 LAMBDA at :
                     \* a dict comprehension: the last option of a key stays
                     IF at = {} THEN NoneOption ELSE options[SetMax(at)])))

legacy_mcq_match(user, canonical, accepted_variants, options) ==
    Let(resolve_choice(user, options), LAMBDA resolved :
        IF resolved = Raised THEN GradeResult("ValueError", <<>>, <<>>, "")
        ELSE
    Let(IF resolved # NoneOption THEN resolved ELSE user, LAMBDA answer_text :
    Let(norm_answer_text(answer_text), LAMBDA user_norm :
    Let(norm_cmp_text(answer_text), LAMBDA user_cmp :
    Let(strip(canonical), LAMBDA canonical_display :
    Let(Targets(canonical_display, accepted_variants), LAMBDA targets :
        IF user_cmp # <<>> /\ user_cmp \in Range(targets)
        THEN GradeResult("correct", user_norm, canonical_display, "")
        ELSE GradeResult("wrong", user_norm, canonical_display, "")))))))

(* sep.join(texts) *)
RECURSIVE Join(_, _)
Join(texts, sep) ==
    IF texts = <<>> THEN <<>>
    ELSE IF Len(texts) = 1 THEN texts[1]
    ELSE texts[1] \o sep \o Join(Tail(texts), sep)

format_correct_answer(correct_options, selection_policy, fallback_canonical) ==
    IF correct_options # <<>>
    THEN IF selection_policy = "any" /\ Len(correct_options) > 1
         THEN Join(correct_options, <<" ", "/", " ">>)
         ELSE Join(correct_options, <<",", " ">>)
    ELSE strip(fallback_canonical)

CmpForms(texts) == AsTuple([i \in 1..Len(texts) |-> norm_cmp_text(texts[i])])

grade_option_item(user, canonical, accepted_variants, options, selection_policy, correct_options, order_sensitive, explicit_correct_options) ==
    Let(format_correct_answer(correct_options, selection_policy, canonical),
        LAMBDA canonical_display :
    Let(map_user_selections(user, options), LAMBDA selections :
        IF selections = <<Raised>> THEN GradeResult("ValueError", <<>>, <<>>, "")
        ELSE IF selections = <<>>
        THEN IF selection_policy = "any" /\ ~explicit_correct_options
             THEN legacy_mcq_match(user, canonical, accepted_variants, options)
             ELSE GradeResult("wrong", <<"mdash">>, canonical_display, "")
        ELSE
    Let(norm_answer_text(Join(selections, <<",", " ">>)), LAMBDA user_norm :
    Let(CmpForms(correct_options), LAMBDA correct_cmp :
    Let(CmpForms(selections), LAMBDA user_cmp :
        IF selection_policy = "any"
        THEN IF Len(user_cmp) = 1 /\ user_cmp[1] \in Range(correct_cmp)
             THEN GradeResult("correct", user_norm, canonical_display, "")
             ELSE IF Len(user_cmp) > 1 /\ Range(user_cmp) \cap Range(correct_cmp) # {}
             THEN GradeResult("almost", user_norm, canonical_display,
                              "Choose ONE option")
             ELSE GradeResult("wrong", user_norm, canonical_display, "")
        ELSE IF order_sensitive
        THEN IF user_cmp = correct_cmp
             THEN GradeResult("correct", user_norm, canonical_display, "")
             ELSE GradeResult("wrong", user_norm, canonical_display, "")
        ELSE IF Range(user_cmp) = Range(correct_cmp)
        THEN GradeResult("correct", user_norm, canonical_display, "")
        ELSE IF Range(user_cmp) \cap Range(correct_cmp) # {}
        THEN [GradeResult("almost", user_norm, canonical_display, "") EXCEPT
                 !.missing = SelectSeq(correct_options, LAMBDA opt :
                                 norm_cmp_text(opt) \notin Range(user_cmp)),
                 !.extra = SelectSeq(selections, LAMBDA opt :
                               norm_cmp_text(opt) \notin Range(correct_cmp))]
        ELSE GradeResult("wrong", user_norm, canonical_display, ""))))))

(* --------------------------- due_flow.py ------------------------------- *)
merge_rule_keys(existing, new_keys) == Dedup(existing \o new_keys, {})

UnitCauseKeys(unit, incoming) ==
    Let(SelectSeq(incoming, LAMBDA k : k[1] = unit),
        LAMBDA own : IF own = <<>> THEN incoming ELSE own)

NewDue(uid, kind, unit, at, keys) ==
    [uid |-> uid, kind |-> kind, unit |-> unit, due_at |-> at,
     ex |-> 1, item |-> 1, corr |-> 0, batch |-> 1, active |-> TRUE, keys |-> keys]

ExistingFor_detours_only(D, uid, unit) ==
    Let({i \in 1..Len(D) : D[i].uid = uid /\ D[i].active /\ D[i].unit = unit
                            /\ D[i].kind = "detour"},
        LAMBDA S : IF S = {} THEN 0 ELSE SetMin(S))

(* the row ensure_detours_for_units finds for a unit: the first active one *)
ExistingFor(D, uid, unit) ==
    Let({i \in 1..Len(D) : D[i].uid = uid /\ D[i].active /\ D[i].unit = unit},
        LAMBDA S : IF S = {} THEN 0 ELSE SetMin(S))

EnsureOne_keeps_due_at(D, uid, unit, incoming, t) ==
    Let(UnitCauseKeys(unit, incoming), LAMBDA keys :
    Let(ExistingFor(D, uid, unit), LAMBDA e :
        IF e = 0
        THEN Append(D, NewDue(uid, "detour", unit, t, keys))
        ELSE Let(merge_rule_keys(D[e].keys, keys), LAMBDA merged :
                 IF D[e].kind = "detour"
                 THEN [D EXCEPT ![e].due_at = IF @ > t THEN t ELSE @,
                                ![e].keys = merged]
                 ELSE [D EXCEPT ![e] = [@ EXCEPT !.kind = "detour",
                                          !.ex = 1, !.item = 1, !.corr = 0,
                                          !.batch = 1, !.active = TRUE,
                                          !.keys = merged]])))

EnsureOne(D, uid, unit, incoming, t) ==
    Let(UnitCauseKeys(unit, incoming), LAMBDA keys :
    Let(ExistingFor(D, uid, unit), LAMBDA e :
        IF e = 0
        THEN Append(D, NewDue(uid, "detour", unit, t, keys))
        ELSE Let(merge_rule_keys(D[e].keys, keys), LAMBDA merged :
                 IF D[e].kind = "detour"
                 THEN [D EXCEPT ![e].due_at = IF @ > t THEN t ELSE @,
                                ![e].keys = merged]
                 ELSE [D EXCEPT ![e] = [@ EXCEPT !.kind = "detour", !.due_at = t,
                                          !.ex = 1, !.item = 1, !.corr = 0,
                                          !.batch = 1, !.active = TRUE,
                                          !.keys = merged]])))

RECURSIVE EnsureLoop(_, _, _, _, _)
EnsureLoop(D, uid, units, incoming, t) ==
    IF units = <<>> THEN D
    ELSE Let(EnsureOne(D, uid, Head(units), incoming, t),
             LAMBDA D1 : EnsureLoop(D1, uid, Tail(units), incoming, t))

(* sorted({u for u in unit_keys if u}): strings are ordered by UnitNum *)
UniqueUnits(unit_keys) ==
    Let(SortedSeq({UnitNum(x) : x \in Range(unit_keys)}),
        LAMBDA nums : [i \in 1..Len(nums) |-> CHOOSE x \in Units : UnitNum(x) = nums[i]])

ensure_detours_for_units(D, uid, unit_keys, incoming, t) ==
    Let(D, LAMBDA D0 : EnsureLoop(D0, uid, UniqueUnits(unit_keys), incoming, t))

FollowKind(kind) == IF kind = "detour" THEN "revisit" ELSE "check"
FollowDelay(kind) == IF kind = "detour" THEN RevisitDelay ELSE CheckDelay

complete_due_without_exercise_no_follow(D, d, t) == [D EXCEPT ![d].active = FALSE]

complete_due_without_exercise(D, d, t) ==
    IF D[d].kind \in {"detour", "revisit"}
    THEN Append([D EXCEPT ![d].active = FALSE],
                NewDue(D[d].uid, FollowKind(D[d].kind), D[d].unit,
                       t + FollowDelay(D[d].kind), D[d].keys))
    ELSE [D EXCEPT ![d].active = FALSE]

(* ----------------------- exercise_inventory.py ------------------------- *)
ExistingIndices(G, unit) == StaticIndices(unit) \cup {i \in 1..BoundedIndexMax : <<unit, i>> \in G}

(* no data/unit_exercises*.json is shipped, so dataset_max is absent *)
unit_real_exercise_indices(G, unit) ==
    Let(ExistingIndices(G, unit), LAMBDA existing :
        IF existing = {} THEN <<>>
        ELSE Let(Min(SetMax(existing), ClampMax), LAMBDA max_real :
                 SortedSeq({i \in existing : i <= max_real})))

ExerciseItems(unit, idx) ==
    IF idx \in StaticIndices(unit) THEN StaticItems(unit, idx) ELSE GeneratedItems

(* ------------------------ exercise selection --------------------------- *)
(* the integer made of the first 8 bytes of sha256("id:unit:kind") *)
SeedOf(id, unit, kind) == id * 9 + UnitNum(unit) * 3 + KindNum(kind)

(* random.Random(seed).shuffle: a permutation fixed by the seed *)
Shuffle(seed, s) ==
    Let(Rotate(s, seed % Len(s)),
        LAMBDA r : IF (seed \div Len(s)) % 2 = 1 THEN Reverse(r) ELSE r)

due_max_exercises(kind) ==
    CASE kind = "detour" -> DetourCap
      [] kind = "revisit" -> RevisitCap
      [] OTHER -> CheckCap

select_real_exercises_for_due_uncapped(G, id, row, max_exercises) ==
    Let(unit_real_exercise_indices(G, row.unit), LAMBDA candidates :
        IF max_exercises <= 0 \/ candidates = <<>> THEN <<>>
        ELSE Shuffle(SeedOf(id, row.unit, row.kind), candidates))

select_real_exercises_for_due(G, id, row, max_exercises) ==
    Let(unit_real_exercise_indices(G, row.unit), LAMBDA candidates :
        IF max_exercises <= 0 \/ candidates = <<>> THEN <<>>
        ELSE Take(Shuffle(SeedOf(id, row.unit, row.kind), candidates), max_exercises))

due_selected_exercises(G, id, row) ==
    select_real_exercises_for_due(G, id, row, due_max_exercises(row.kind))

(* 0 is None *)
due_real_exercise_index(G, id, row) ==
    IF row.kind \in {"detour", "revisit"}
    THEN Let(select_real_exercises_for_due(G, id, row, due_max_exercises(row.kind)),
             LAMBDA selected :
                 IF selected = <<>> \/ Max(row.ex, 1) > Len(selected) THEN 0
                 ELSE selected[Max(row.ex, 1)])
    ELSE Let(unit_real_exercise_indices(G, row.unit), LAMBDA real_indices :
                 IF real_indices = <<>> THEN 0
                 ELSE IF row.ex \in Range(real_indices) THEN row.ex
                 ELSE real_indices[1])

filter_items_by_cause(items, cause_keys) ==
    IF cause_keys = <<>> THEN items
    ELSE Let(SelectSeq(items, LAMBDA it : Range(it) \cap Range(cause_keys) # {}),
             LAMBDA filtered : IF filtered = <<>> THEN items ELSE filtered)

ShownItems(row, idx) ==
    Let(filter_items_by_cause(ExerciseItems(row.unit, idx), row.keys), LAMBDA filtered :
        IF row.kind \in {"detour", "revisit"} THEN Take(filtered, ShownCap) ELSE filtered)

(* ----------------------- exercise_generator.py ------------------------- *)
(* S is the session: the tables as the handler sees them, the number of    *)
(* generation calls made, whether an exception ended the handler, and what *)
(* the handler did.  gs[i] is the outcome of the i-th generation call:     *)
(* "ok" stores a valid exercise, "rejected" is empty, invalid or twice     *)
(* forbidden output (None or ValueError), "error" is an exception of the   *)
(* client.  The result is the session and the exercise index found, or 0.  *)
(* saved is what the database holds (the tables at the last commit), sent  *)
(* counts the questions and notices sent to the learner, refuse says that  *)
(* the bot's send to this chat raises, raised that it did                  *)
Session(D, ST, G) ==
    [due |-> D, st |-> ST, gen |-> G, calls |-> 0, abort |-> FALSE,
     genfail |-> {}, missing |-> {}, done |-> {}, adv |-> 0, adveff |-> FALSE,
     asked |-> 0, fetched |-> {},
     saved |-> [due |-> D, st |-> ST, gen |-> G], sent |-> 0,
     refuse |-> FALSE, raised |-> FALSE]

(* await s.commit() *)
Commit(S) == [S EXCEPT !.saved = [due |-> S.due, st |-> S.st, gen |-> S.gen]]

(* await m.answer(...): the exception of a failed send ends the handler *)
Send(S) ==
    IF S.refuse THEN [S EXCEPT !.abort = TRUE, !.raised = TRUE]
    ELSE [S EXCEPT !.sent = @ + 1]

ensure_unit_exercise(S, gs, unit, idx, allow_generate) ==
    IF idx \in ExistingIndices(S.gen, unit) THEN [S |-> S, ex |-> idx]
    ELSE IF ~allow_generate THEN [S |-> S, ex |-> 0]
    ELSE Let(gs[Min(S.calls + 1, Len(gs))], LAMBDA o :
             CASE o = "ok" ->
                    [S |-> Commit([S EXCEPT !.calls = @ + 1,
                                            !.gen = @ \cup {<<unit, idx>>}]),
                     ex |-> idx]
               [] o = "rejected" ->
                    [S |-> [S EXCEPT !.calls = @ + 1, !.genfail = @ \cup {unit}], ex |-> 0]
               [] OTHER ->
                    [S |-> [S EXCEPT !.calls = @ + 1, !.genfail = @ \cup {unit},
                                  !.abort = TRUE],
                     ex |-> 0])

(* where _due_current_item looks for the exercise: the position it sets,   *)
(* the real index it asks for, and whether generation is allowed; adjust   *)
(* is the repositioning _due_items_length does not do                      *)
LoadPlan(row, selected, real, adjust) ==
    IF real = 0
    THEN IF selected # <<>>
         THEN [ex |-> 1, idx |-> selected[1], allow |-> FALSE]
         ELSE [ex |-> row.ex, idx |-> Max(1, Min(row.ex, BoundedIndexMax)),
               allow |-> TRUE]
    ELSE IF adjust /\ row.kind \in {"detour", "revisit"}
               /\ (row.ex < 1 \/ row.ex > Len(selected))
         THEN [ex |-> 1, idx |-> selected[1], allow |-> FALSE]
    ELSE IF adjust /\ row.kind = "check" /\ real # row.ex
         THEN [ex |-> 1, idx |-> real, allow |-> FALSE]
    ELSE [ex |-> row.ex, idx |-> real, allow |-> FALSE]

(* the part _due_current_item and _due_items_length share: the exercise of *)
(* the due item's position                                                 *)
LoadExercise(S0, gs, d, adjust) ==
    Let(S0, LAMBDA S :
    Let(due_selected_exercises(S.gen, d, S.due[d]), LAMBDA selected :
    Let(LoadPlan(S.due[d], selected, due_real_exercise_index(S.gen, d, S.due[d]), adjust),
        LAMBDA plan :
    Let(ensure_unit_exercise([S EXCEPT !.due[d].ex = plan.ex], gs,
                             S.due[d].unit, plan.idx, plan.allow), LAMBDA r1 :
    Let(IF r1.S.abort \/ r1.ex # 0 \/ selected = <<>> THEN r1
        ELSE Let(due_selected_exercises(r1.S.gen, d, r1.S.due[d]), LAMBDA refreshed :
                 IF refreshed = <<>> THEN r1
                 ELSE ensure_unit_exercise([r1.S EXCEPT !.due[d].ex = 1], gs,
                                           S.due[d].unit, refreshed[1], FALSE)),
        \* the exercise fetched for the due item is noted
        LAMBDA r : IF r.ex = 0 THEN r
                   ELSE [r EXCEPT !.S.fetched = @ \cup {<<d, r.ex>>}])))))

(* result: the session, the exercise (0 = None), the items shown for it    *)
(* and the index of the current item (0 = None)                            *)
due_current_item(S, gs, d) ==
    Let(LoadExercise(S, gs, d, TRUE), LAMBDA r :
    Let(IF r.ex = 0 THEN <<>> ELSE ShownItems(r.S.due[d], r.ex), LAMBDA shown :
        [S |-> r.S, ex |-> r.ex, shown |-> shown,
         idx |-> IF r.ex = 0 \/ shown = <<>> THEN 0
                 ELSE IF r.S.due[d].item < 1 \/ r.S.due[d].item > Len(shown) THEN 1
                 ELSE r.S.due[d].item]))

(* result: the session and the number of items shown (0 = None) *)
due_items_length(S, gs, d) ==
    Let(LoadExercise(S, gs, d, FALSE), LAMBDA r :
        [S |-> r.S, n |-> IF r.ex = 0 THEN 0 ELSE Len(ShownItems(r.S.due[d], r.ex))])

(* ----------------------------- handlers.py ----------------------------- *)
effective_correct_almost_passes(verdict, flipped_to_correct, mode) ==
    flipped_to_correct \/ verdict \in {"correct", "almost"}

effective_correct(verdict, flipped_to_correct, mode) ==
    IF flipped_to_correct THEN TRUE
    ELSE IF mode \in {"easy", "normal"} THEN verdict \in {"correct", "almost"}
    ELSE verdict = "correct"

should_attach_remediation(verdict, acceptance_mode, flipped) ==
    ~effective_correct(verdict, flipped, acceptance_mode)

(* the first of the candidates: earliest due_at, then lowest id *)
FirstDue(D, C) ==
    CHOOSE i \in C : \A j \in C :
        D[i].due_at < D[j].due_at \/ (D[i].due_at = D[j].due_at /\ i <= j)

DueOfKind_any_time(D, uid, t, kind) ==
    {i \in 1..Len(D) : D[i].uid = uid /\ D[i].active /\ D[i].kind = kind}

DueOfKind(D, uid, t, kind) ==
    {i \in 1..Len(D) : D[i].uid = uid /\ D[i].active /\ D[i].kind = kind
                       /\ D[i].due_at <= t}

next_due_item_detour_first(D, uid, t) ==
    Let(<<DueOfKind(D, uid, t, "detour"), DueOfKind(D, uid, t, "revisit"),
          DueOfKind(D, uid, t, "check")>>, LAMBDA c :
        IF c[1] # {} THEN FirstDue(D, c[1])
        ELSE IF c[2] # {} THEN FirstDue(D, c[2])
        ELSE IF c[3] # {} THEN FirstDue(D, c[3])
        ELSE 0)

(* revisit, then check, then detour *)
next_due_item(D, uid, t) ==
    Let(<<DueOfKind(D, uid, t, "revisit"), DueOfKind(D, uid, t, "check"),
          DueOfKind(D, uid, t, "detour")>>, LAMBDA c :
        IF c[1] # {} THEN FirstDue(D, c[1])
        ELSE IF c[2] # {} THEN FirstDue(D, c[2])
        ELSE IF c[3] # {} THEN FirstDue(D, c[3])
        ELSE 0)

placement_next_item(after_order) ==
    IF after_order < Len(PlacementItems) THEN after_order + 1 ELSE 0

parse_study_units(study, fallback_unit) ==
    IF study # <<>> THEN study ELSE <<fallback_unit>>

(* the rule keys on_answer stores with a failed placement attempt *)
PlacementRuleKeys(p) ==
    Let(parse_study_units(PlacementItems[p].study, PlacementItems[p].unit), LAMBDA units :
        Dedup(Flatten([i \in 1..Len(units) |-> Take(UnitRules(units[i]), RulesPerUnit)]), {}))

create_follow_due_next_week(row, uid, t) ==
    NewDue(uid, FollowKind(row.kind), row.unit, t + CheckDelay, row.keys)

create_follow_due(row, uid, t) ==
    NewDue(uid, FollowKind(row.kind), row.unit, t + FollowDelay(row.kind), row.keys)

AdvancedRow_single_correct(row, n, eff) ==
    IF ~eff THEN [row EXCEPT !.item = 1, !.corr = 0]
    ELSE IF row.corr >= 1
         THEN [row EXCEPT !.ex = @ + 1, !.item = 1, !.corr = 0]
    ELSE IF n > 0 /\ row.item + 1 > n
         THEN [row EXCEPT !.ex = @ + 1, !.item = 1, !.corr = 0]
    ELSE [row EXCEPT !.item = @ + 1]

AdvancedRow_keeps_item(row, n, eff) ==
    IF ~eff THEN [row EXCEPT !.item = 1, !.corr = 0]
    ELSE IF row.corr >= (IF n > 0 THEN Min(RequiredCorrect, n) ELSE RequiredCorrect)
         THEN [row EXCEPT !.ex = @ + 1, !.corr = 0]
    ELSE IF n > 0 /\ row.item + 1 > n
         THEN [row EXCEPT !.ex = @ + 1, !.item = 1, !.corr = 0]
    ELSE [row EXCEPT !.item = @ + 1]

AdvancedRow_keeps_correct(row, n, eff) ==
    IF ~eff THEN [row EXCEPT !.item = 1]
    ELSE IF row.corr >= (IF n > 0 THEN Min(RequiredCorrect, n) ELSE RequiredCorrect)
         THEN [row EXCEPT !.ex = @ + 1, !.item = 1, !.corr = 0]
    ELSE IF n > 0 /\ row.item + 1 > n
         THEN [row EXCEPT !.ex = @ + 1, !.item = 1, !.corr = 0]
    ELSE [row EXCEPT !.item = @ + 1]

(* the counters after an answer, n being the number of items shown (0 when *)
(* unknown)                                                                *)
AdvancedRow(row, n, eff) ==
    IF ~eff THEN [row EXCEPT !.item = 1, !.corr = 0]
    ELSE IF row.corr >= (IF n > 0 THEN Min(RequiredCorrect, n) ELSE RequiredCorrect)
         THEN [row EXCEPT !.ex = @ + 1, !.item = 1, !.corr = 0]
    ELSE IF n > 0 /\ row.item + 1 > n
         THEN [row EXCEPT !.ex = @ + 1, !.item = 1, !.corr = 0]
    ELSE [row EXCEPT !.item = @ + 1]

(* result: the session and whether the due item is completed *)
advance_due_detour_revisit(S0, gs, d, eff) ==
    Let(S0, LAMBDA S :
    Let(IF eff THEN due_items_length([S EXCEPT !.due[d].corr = @ + 1], gs, d)
        ELSE [S |-> S, n |-> 0], LAMBDA r :
        IF r.S.abort THEN [S |-> [r.S EXCEPT !.due = S.due], completed |-> FALSE]
        ELSE Let(AdvancedRow(r.S.due[d], r.n, eff), LAMBDA nrow :
             Let(select_real_exercises_for_due(r.S.gen, d, nrow,
                                               due_max_exercises(nrow.kind)),
                 LAMBDA selected :
                     [S |-> [r.S EXCEPT !.due[d] = nrow, !.adv = d, !.adveff = eff],
                      completed |-> (selected = <<>> \/ nrow.ex > Len(selected))]))))

(* the counters of a check after an effectively-correct answer *)
advance_check(S0, gs, d) ==
    Let(S0, LAMBDA S :
    Let(due_items_length([S EXCEPT !.due[d].corr = @ + 1], gs, d), LAMBDA r :
        IF r.S.abort THEN [r.S EXCEPT !.due = S.due]
        ELSE IF r.S.due[d].corr >= (IF r.n > 0 THEN Min(RequiredCorrect, r.n)
                                    ELSE RequiredCorrect)
             THEN [r.S EXCEPT !.due[d] = [@ EXCEPT !.ex = @ + 1, !.item = 1, !.corr = 0],
                              !.adv = d, !.adveff = TRUE]
        ELSE Let(due_items_length([r.S EXCEPT !.due[d].item = @ + 1], gs, d), LAMBDA r2 :
                 IF r2.S.abort THEN [r2.S EXCEPT !.due = S.due]
                 ELSE IF r2.n > 0 /\ r2.S.due[d].item > r2.n
                      THEN [r2.S EXCEPT !.due[d] = [@ EXCEPT !.ex = @ + 1, !.item = 1,
                                                             !.corr = 0],
                                        !.adv = d, !.adveff = TRUE]
                 ELSE [r2.S EXCEPT !.adv = d, !.adveff = TRUE])))

ask_placement_item(S, u, p) ==
    Let(Send(S), LAMBDA S1 :
        IF S1.abort THEN S1
        ELSE [S1 EXCEPT !.st[u] = [@ EXCEPT !.mode = "placement", !.pp = p,
                                            !.pd = 0, !.lpo = p]])

(* st.mode = "idle"; await s.commit(); await m.answer("OK") *)
SetIdle(S, u) ==
    Send(Commit([S EXCEPT !.st[u] = [@ EXCEPT !.mode = "idle", !.pd = 0, !.pp = 0]]))

RECURSIVE ask_due_item(_, _, _, _, _)
RECURSIVE handle_missing_due_content(_, _, _, _, _)

ask_due_item(S, gs, u, d, t) ==
    IF S.abort THEN S
    ELSE Let(due_current_item(S, gs, d), LAMBDA c :
             IF c.S.abort THEN c.S
             ELSE IF c.ex = 0 \/ c.idx = 0
                  THEN handle_missing_due_content(c.S, gs, u, d, t)
             ELSE Let(Send([c.S EXCEPT !.due[d].item = c.idx]), LAMBDA S1 :
                      IF S1.abort THEN S1
                      ELSE [S1 EXCEPT !.st[u] = [@ EXCEPT !.mode = c.S.due[d].kind,
                                                          !.pd = d, !.pp = 0],
                                      !.asked = d]))

handle_missing_due_content(S, gs, u, d, t) ==
    Let(Commit([S EXCEPT !.due = complete_due_without_exercise(S.due, d, t),
                         !.missing = @ \cup {d}]), LAMBDA S1 :
    Let(next_due_item(S1.due, u, t), LAMBDA next_due :
        IF next_due # 0 THEN ask_due_item(S1, gs, u, next_due, t)
        ELSE IF placement_next_item(S1.st[u].lpo) # 0
             THEN ask_placement_item(S1, u, placement_next_item(S1.st[u].lpo))
        ELSE SetIdle(S1, u)))

ask_next_due_or_placement(S0, gs, u, t) ==
    Let(S0, LAMBDA S :
    Let(next_due_item(S.due, u, t), LAMBDA di :
        IF di # 0 THEN ask_due_item(S, gs, u, di, t)
        ELSE IF placement_next_item(S.st[u].lpo) # 0
             THEN ask_placement_item(S, u, placement_next_item(S.st[u].lpo))
        ELSE SetIdle(S, u)))

(* what every handler does once a due item is completed or found inactive: *)
(* the next due item, else the next placement item, else nothing           *)
AskNextAfterDue(S0, gs, u, t) ==
    Let(S0, LAMBDA S :
    Let(next_due_item(S.due, u, t), LAMBDA di :
        IF di # 0 THEN ask_due_item(S, gs, u, di, t)
        ELSE IF placement_next_item(S.st[u].lpo) # 0
             THEN ask_placement_item(S, u, placement_next_item(S.st[u].lpo))
        ELSE S))

(* due.is_active = False; follow = _create_follow_due(due); s.add(follow) *)
CompleteDue(S, u, d, t) ==
    [S EXCEPT !.due = Append([@ EXCEPT ![d].active = FALSE],
                             create_follow_due(@[d], u, t)),
              !.done = @ \cup {d}]

(* the detour_next / revisit_next / check_next part, on an active due item *)
ContinueOrCompleteDue(S, gs, u, d, eff, t) ==
    IF S.due[d].kind \in {"detour", "revisit"}
    THEN Let(advance_due_detour_revisit(S, gs, d, eff), LAMBDA a :
             IF a.S.abort THEN a.S
             ELSE IF a.completed
                  THEN AskNextAfterDue(Commit(CompleteDue(a.S, u, d, t)), gs, u, t)
             ELSE ask_due_item(Commit(a.S), gs, u, d, t))
    ELSE Let(advance_check(S, gs, d), LAMBDA S1 :
             IF S1.abort THEN S1
             ELSE AskNextAfterDue(Commit([S1 EXCEPT !.due[d].active = FALSE,
                                                    !.done = @ \cup {d}]), gs, u, t))

auto_next_after_correct_due(S, gs, u, d, t) == ContinueOrCompleteDue(S, gs, u, d, TRUE, t)

auto_next_after_correct_placement(S, u) ==
    IF placement_next_item(S.st[u].lpo) = 0 THEN S
    ELSE ask_placement_item(S, u, placement_next_item(S.st[u].lpo))

(* ensure_detours_for_units commits what it changed; without a due item   *)
(* to ask the learner gets the notice "OK"                                 *)
EnsureAndAsk(S, gs, u, unit_keys, keys, t) ==
    Let(ensure_detours_for_units(S.due, u, unit_keys, keys, t), LAMBDA D1 :
    Let(IF D1 = S.due THEN S ELSE Commit([S EXCEPT !.due = D1]), LAMBDA S1 :
    Let(next_due_item(S1.due, u, t), LAMBDA next_due :
        IF next_due = 0 THEN Send(S1) ELSE ask_due_item(S1, gs, u, next_due, t))))

handle_next_action_check_passes(S0, gs, u, att, flipped, t) ==
    Let(S0, LAMBDA S :
    Let(effective_correct(att.verdict, flipped, S.st[u].acc), LAMBDA eff :
        IF att.mode = "placement"
        THEN IF eff
             THEN IF placement_next_item(S.st[u].lpo) = 0 THEN Send(S)
                  ELSE ask_placement_item(S, u, placement_next_item(S.st[u].lpo))
             ELSE EnsureAndAsk(S, gs, u,
                     parse_study_units(PlacementItems[att.pid].study, att.unit),
                     att.keys, t)
        ELSE IF att.did = 0 \/ att.did > Len(S.due) \/ ~S.due[att.did].active
             THEN AskNextAfterDue(S, gs, u, t)
        ELSE ContinueOrCompleteDue(S, gs, u, att.did, eff, t)))

handle_next_action(S0, gs, u, att, flipped, t) ==
    Let(S0, LAMBDA S :
    Let(effective_correct(att.verdict, flipped, S.st[u].acc), LAMBDA eff :
        IF att.mode = "placement"
        THEN IF eff
             THEN IF placement_next_item(S.st[u].lpo) = 0 THEN Send(S)
                  ELSE ask_placement_item(S, u, placement_next_item(S.st[u].lpo))
             ELSE EnsureAndAsk(S, gs, u,
                     parse_study_units(PlacementItems[att.pid].study, att.unit),
                     att.keys, t)
        ELSE IF att.did = 0 \/ att.did > Len(S.due) \/ ~S.due[att.did].active
             THEN AskNextAfterDue(S, gs, u, t)
        ELSE IF S.due[att.did].kind = "check" /\ ~eff
             THEN EnsureAndAsk(S, gs, u, <<S.due[att.did].unit>>, att.keys, t)
        ELSE ContinueOrCompleteDue(S, gs, u, att.did, eff, t)))

is_stuck_state(S0, gs, u) ==
    Let(S0, LAMBDA S :
        IF S.st[u].mode = "await_next" THEN [S |-> S, stuck |-> TRUE]
        ELSE IF S.st[u].mode = "placement" THEN [S |-> S, stuck |-> (S.st[u].pp = 0)]
        ELSE IF S.st[u].mode \in Kinds
             THEN IF S.st[u].pd = 0 \/ S.st[u].pd > Len(S.due)
                  THEN [S |-> S, stuck |-> TRUE]
                  ELSE IF ~S.due[S.st[u].pd].active THEN [S |-> S, stuck |-> TRUE]
                  ELSE Let(due_current_item(S, gs, S.st[u].pd), LAMBDA c :
                           [S |-> c.S, stuck |-> (c.ex = 0 \/ c.idx = 0)])
        ELSE [S |-> S, stuck |-> FALSE])

(* ------------------------------ state ---------------------------------- *)
InitState ==
    [mode |-> "idle", acc |-> "normal", pp |-> 0, pd |-> 0, lpo |-> 0,
     last |-> 0, rec |-> "never"]

NoEvent ==
    [op |-> "init", u |-> 0, a |-> 0, eff |-> FALSE, missing |-> {}, done |-> {},
     adv |-> 0, adveff |-> FALSE, asked |-> 0, genfail |-> {}, abort |-> FALSE,
     units |-> <<>>, keys |-> <<>>, fetched |-> {}]

Event(op, u, a, eff, S) ==
    [op |-> op, u |-> u, a |-> a, eff |-> eff, missing |-> S.missing, done |-> S.done,
     adv |-> S.adv, adveff |-> S.adveff, asked |-> S.asked, genfail |-> S.genfail,
     abort |-> S.abort, units |-> <<>>, keys |-> <<>>, fetched |-> S.fetched]

(* the on_answer handlers in flight: the updates of one chat are handled   *)
(* as tasks of one event loop, each with a database session of its own     *)
Handlers == {1, 2}
IdleFlight == [pc |-> "idle", u |-> 0, row |-> InitState]

Init ==
    /\ approved = {1}
    /\ due = <<>>
    /\ attempts = <<>>
    /\ why = <<>>
    /\ st = [u \in AllUsers |-> InitState]
    /\ gen = {}
    /\ now = 0
    /\ ev = NoEvent
    /\ flight = [h \in Handlers |-> IdleFlight]

Oracles == [1..MaxCalls -> GenOutcomes]
NoOracle == [i \in 1..MaxCalls |-> "rejected"]

(* the tables after a handler; the due table is kept within MaxDue *)
Store(S, op, u, a, eff) ==
    /\ Len(S.due) <= MaxDue
    /\ due' = S.due
    /\ st' = S.st
    /\ gen' = S.gen
    /\ ev' = Event(op, u, a, eff, S)

(* a handler H under every outcome of its generation calls; when it makes  *)
(* no generation call its result does not depend on the outcomes           *)
StoreAny(H(_), op, u, a, eff) ==
    \E S0 \in {H(NoOracle)} :
        IF S0.calls = 0
        THEN Store(S0, op, u, a, eff)
        ELSE \E S \in {H(gs) : gs \in Oracles} : Store(S, op, u, a, eff)

(* on_answer on a pending placement item, graded with the verdict; ST is   *)
(* the user state table as the handler read it                             *)
AnswerPlacementAs(u, verdict, maxAtt, ST) ==
    /\ u \in approved
    /\ Len(attempts) < maxAtt
    /\ ST[u].mode = "placement" /\ ST[u].pp # 0
    /\ LET p == ST[u].pp
           eff == effective_correct(verdict, FALSE, ST[u].acc)
           a == Len(attempts) + 1
           att == [uid |-> u, mode |-> "placement", pid |-> p, did |-> 0,
                   unit |-> PlacementItems[p].unit, verdict |-> verdict,
                   keys |-> IF eff THEN <<>> ELSE PlacementRuleKeys(p),
                   next |-> ~eff, handled |-> eff]
           S0 == Session(due, [ST EXCEPT ![u] = [@ EXCEPT !.last = a, !.pp = 0,
                                                         !.mode = "await_next"]], gen)
           S1 == IF eff THEN auto_next_after_correct_placement(S0, u) ELSE S0
       IN  /\ attempts' = Append(attempts, att)
           /\ why' = Append(why, "none")
           /\ \E S \in {S1} : Store(S, "answer", u, a, eff)
    /\ UNCHANGED <<approved, now>>

(* on_answer handled alone, from the read of the user state to the end *)
AnswerPlacement(u, verdict, maxAtt) ==
    /\ AnswerPlacementAs(u, verdict, maxAtt, st)
    /\ UNCHANGED flight

(* on_answer on a pending due item, graded with the verdict; ST is the     *)
(* user state table as the handler read it                                 *)
AnswerDueAs(u, verdict, maxAtt, ST) ==
    /\ u \in approved
    /\ Len(attempts) < maxAtt
    /\ ST[u].mode \in Kinds /\ ST[u].pd # 0 /\ ST[u].pd <= Len(due)
    /\ due[ST[u].pd].active
    /\ \E d \in {ST[u].pd}, a \in {Len(attempts) + 1},
          eff \in {effective_correct(verdict, FALSE, ST[u].acc)},
          c \in {due_current_item(Session(due, ST, gen), gs, ST[u].pd) :
                     gs \in IF ExistingIndices(gen, due[ST[u].pd].unit) # {}
                            THEN {NoOracle} ELSE Oracles} :
          \* without an exercise and an item the handler returns at once
          /\ ~c.S.abort /\ c.ex # 0 /\ c.idx # 0
          /\ attempts' = Append(attempts,
                 [uid |-> u, mode |-> due[d].kind, pid |-> 0, did |-> d,
                  unit |-> due[d].unit, verdict |-> verdict,
                  keys |-> c.shown[c.idx], next |-> ~eff, handled |-> eff])
          /\ why' = Append(why, "none")
          /\ LET S0 == [c.S EXCEPT !.st[u] = [@ EXCEPT !.last = a, !.pd = 0,
                                                       !.mode = "await_next"]]
                 H(gs) == IF eff THEN auto_next_after_correct_due(S0, gs, u, d, now)
                          ELSE S0
             IN  StoreAny(H, "answer", u, a, eff)
    /\ UNCHANGED <<approved, now>>

(* on_answer handled alone, from the read of the user state to the end *)
AnswerDue(u, verdict, maxAtt) ==
    /\ AnswerDueAs(u, verdict, maxAtt, st)
    /\ UNCHANGED flight

(* on_next: the Next button of an attempt that was sent with one; handled  *)
(* is history, not a column: with mark it records that the attempt's       *)
(* transition was applied (by the automatic advance of on_answer or by     *)
(* on_next)                                                                *)
OnNextAs(u, a, mark) ==
    /\ u \in approved
    /\ a \in 1..Len(attempts)
    /\ attempts[a].uid = u /\ attempts[a].next
    /\ LET flipped == why[a] = "flipped"
           H(gs) == handle_next_action(Session(due, st, gen), gs, u, attempts[a],
                                       flipped, now)
       IN  StoreAny(H, "next", u, a,
                    effective_correct(attempts[a].verdict, flipped, st[u].acc))
    /\ attempts' = [attempts EXCEPT ![a].handled = @ \/ (mark /\ ~ev'.abort)]
    /\ UNCHANGED <<flight, approved, why, now>>

OnNext(u, a) == OnNextAs(u, a, FALSE)

OnWhy_rewrites_verdict(u, a, out) ==
    /\ a \in 1..Len(attempts)
    /\ attempts[a].uid = u
    /\ why[a] = "none"
    /\ out # "error"
    /\ why' = [why EXCEPT ![a] = "cached"]
    /\ attempts' = [attempts EXCEPT ![a].verdict = IF out = "correct" THEN "correct" ELSE @]
    /\ ev' = [NoEvent EXCEPT !.op = "why", !.u = u, !.a = a]
    /\ UNCHANGED <<flight, approved, due, st, gen, now>>

(* on_why: the first press asks the explanation service *)
OnWhy(u, a, out) ==
    /\ a \in 1..Len(attempts)
    /\ attempts[a].uid = u
    /\ why[a] = "none"
    /\ IF out = "error"
       THEN /\ why' = why
            /\ ev' = [NoEvent EXCEPT !.op = "why", !.u = u, !.a = a, !.abort = TRUE]
       ELSE /\ why' = [why EXCEPT ![a] =
                         IF out = "correct" /\ attempts[a].verdict # "correct"
                         THEN "flipped" ELSE "cached"]
            /\ ev' = [NoEvent EXCEPT !.op = "why", !.u = u, !.a = a]
    /\ UNCHANGED <<flight, approved, due, attempts, st, gen, now>>

(* a deleted row: ids are positions, so the place of the row is kept *)
DeletedDue(row) == [row EXCEPT !.uid = 0, !.active = FALSE]
DeletedAttempt(att) == [att EXCEPT !.uid = 0, !.next = FALSE]

ResetProgress_all_learners(u) ==
    /\ u \in approved
    /\ due' = [i \in 1..Len(due) |-> DeletedDue(due[i])]
    /\ attempts' = [a \in 1..Len(attempts) |-> DeletedAttempt(attempts[a])]
    /\ why' = [a \in 1..Len(why) |-> "none"]
    /\ st' = [st EXCEPT ![u] = [@ EXCEPT !.mode = "idle", !.pp = 0, !.pd = 0,
                                         !.lpo = 0, !.last = 0, !.rec = "never"]]
    /\ ev' = [NoEvent EXCEPT !.op = "reset", !.u = u]
    /\ UNCHANGED <<flight, approved, gen, now>>

(* on_reset_progress: the learner's Why cache, attempts and due items are  *)
(* deleted and the user state goes back to idle; the difficulty is kept    *)
ResetProgress(u) ==
    /\ u \in approved
    /\ due' = [i \in 1..Len(due) |->
                  IF due[i].uid = u THEN DeletedDue(due[i]) ELSE due[i]]
    /\ attempts' = [a \in 1..Len(attempts) |->
                       IF attempts[a].uid = u THEN DeletedAttempt(attempts[a])
                       ELSE attempts[a]]
    /\ why' = [a \in 1..Len(why) |-> IF attempts[a].uid = u THEN "none" ELSE why[a]]
    /\ st' = [st EXCEPT ![u] = [@ EXCEPT !.mode = "idle", !.pp = 0, !.pd = 0,
                                         !.lpo = 0, !.last = 0, !.rec = "never"]]
    /\ ev' = [NoEvent EXCEPT !.op = "reset", !.u = u]
    /\ UNCHANGED <<flight, approved, gen, now>>

(* on_set_difficulty *)
SetDifficulty(u, mode) ==
    /\ u \in approved
    /\ st' = [st EXCEPT ![u].acc = mode]
    /\ ev' = [NoEvent EXCEPT !.op = "difficulty", !.u = u]
    /\ UNCHANGED <<flight, approved, due, attempts, why, gen, now>>

(* start_placement *)
StartPlacement(u) ==
    /\ u \in approved
    /\ LET d == next_due_item(due, u, now)
           item == placement_next_item(st[u].lpo)
           S0 == Session(due, st, gen)
           H(gs) == IF d # 0
                    THEN ask_due_item([S0 EXCEPT !.st[u] = [@ EXCEPT !.mode = due[d].kind,
                                                                     !.pd = d, !.pp = 0]],
                                      gs, u, d, now)
                    ELSE IF item = 0 THEN S0
                    ELSE ask_placement_item(S0, u, item)
       IN  StoreAny(H, "start", u, 0, FALSE)
    /\ UNCHANGED <<flight, approved, attempts, why, now>>

(* time passes until the next waiting due item falls due; the recovery     *)
(* window (30 minutes) is then over                                        *)
Tick ==
    /\ \E i \in 1..Len(due) : due[i].active /\ due[i].due_at > now
    /\ LET t == SetMin({due[i].due_at : i \in {j \in 1..Len(due) :
                                     due[j].active /\ due[j].due_at > now}})
       IN  /\ t <= MaxTime
           /\ now' = t
    /\ st' = [u \in AllUsers |-> [st[u] EXCEPT !.rec = IF @ = "never" THEN @ ELSE "before"]]
    /\ ev' = [NoEvent EXCEPT !.op = "tick"]
    /\ UNCHANGED <<flight, approved, due, attempts, why, gen>>

(* resume_stuck_users_on_startup, for one candidate *)
Recover(u) ==
    /\ u \in approved
    /\ st[u].mode # "idle"
    /\ st[u].rec # "now"
    /\ LET R(gs) ==
             Let(is_stuck_state(Session(due, st, gen), gs, u), LAMBDA k :
                 IF k.S.abort \/ ~k.stuck THEN [stuck |-> k.stuck, S |-> k.S]
                 ELSE Let(IF st[u].mode = "await_next" /\ st[u].last # 0
                             /\ attempts[st[u].last].uid = u
                          THEN handle_next_action(k.S, gs, u, attempts[st[u].last],
                                                  why[st[u].last] = "flipped", now)
                          ELSE ask_next_due_or_placement(k.S, gs, u, now), LAMBDA S1 :
                          [stuck |-> TRUE,
                           S |-> IF S1.abort THEN S1
                                 ELSE [S1 EXCEPT !.st[u].rec = "now"]]))
           \* the attempt whose Next is replayed, if any
           a == IF st[u].mode = "await_next" /\ st[u].last # 0
                   /\ attempts[st[u].last].uid = u
                THEN st[u].last ELSE 0
           eff == a # 0 /\ effective_correct(attempts[a].verdict, why[a] = "flipped",
                                             st[u].acc)
       IN  \E r0 \in {R(NoOracle)} :
               IF r0.S.calls = 0
               THEN r0.stuck /\ Store(r0.S, "recover", u, a, eff)
               ELSE \E r \in {R(gs) : gs \in Oracles} :
                       r.stuck /\ Store(r.S, "recover", u, a, eff)
    /\ UNCHANGED <<flight, approved, attempts, why, now>>

(* the learner answers the question asked, uses the buttons of the last    *)
(* message and may start again at any time; the bot may restart at any     *)
(* time                                                                    *)
Next ==
    \/ \E u \in AllUsers, v \in Verdicts : AnswerPlacement(u, v, MaxAttempts)
    \/ \E u \in AllUsers, v \in Verdicts : AnswerDue(u, v, MaxAttempts)
    \/ \E u \in AllUsers : st[u].mode = "await_next" /\ OnNext(u, st[u].last)
    \/ \E u \in AllUsers, out \in WhyOutcomes :
          st[u].mode = "await_next" /\ OnWhy(u, st[u].last, out)
    \/ \E u \in AllUsers : StartPlacement(u)
    \/ \E u \in AllUsers : Recover(u)
    \/ Tick

Spec == Init /\ [][Next]_vars

(* the learner presses any button of the chat at any time, old ones too *)
NextFree ==
    \/ \E u \in AllUsers, v \in Verdicts : AnswerPlacement(u, v, MaxFree)
    \/ \E u \in AllUsers, v \in Verdicts : AnswerDue(u, v, MaxFree)
    \/ \E u \in AllUsers, a \in 1..MaxFree : OnNextAs(u, a, TRUE)
    \/ \E u \in AllUsers : StartPlacement(u)
    \/ \E u \in AllUsers : Recover(u)
    \/ Tick

SpecFree == Init /\ [][NextFree]_vars

(* a learner who answers every practice question correctly; placement      *)
(* answers are free                                                        *)
NextRun ==
    \/ \E u \in AllUsers, v \in Verdicts : AnswerPlacement(u, v, MaxRun)
    \/ \E u \in AllUsers : AnswerDue(u, "correct", MaxRun)
    \/ \E u \in AllUsers : st[u].mode = "await_next" /\ OnNext(u, st[u].last)
    \/ \E u \in AllUsers : StartPlacement(u)
    \/ Tick

SpecRun == Init /\ [][NextRun]_vars

(* ------------------- the due_flow functions on their own --------------- *)
EnsureUnitKeys == {<<"u1">>, <<"u2", "u1", "u1">>}
EnsureRuleKeys ==
    {<<>>, << <<"u1", "A">>, <<"u1", "A">> >>, << <<"u2", "A">>, <<"u1", "B">> >>}

(* a call of ensure_detours_for_units *)
EnsureCall(u, unit_keys, keys) ==
    /\ \E D \in {ensure_detours_for_units(due, u, unit_keys, keys, now)} :
          /\ Len(D) <= MaxRows
          /\ due' = D
    /\ ev' = [NoEvent EXCEPT !.op = "ensure", !.u = u, !.units = unit_keys,
                             !.keys = keys]
    /\ UNCHANGED <<flight, approved, attempts, why, st, gen, now>>

(* a call of complete_due_without_exercise on an active due item *)
CompleteCall(d) ==
    /\ d \in 1..Len(due) /\ due[d].active
    /\ \E D \in {complete_due_without_exercise(due, d, now)} :
          /\ Len(D) <= MaxRows
          /\ due' = D
    /\ ev' = [NoEvent EXCEPT !.op = "complete", !.u = due[d].uid, !.missing = {d}]
    /\ UNCHANGED <<flight, approved, attempts, why, st, gen, now>>

(* grading in between: the counters of an active detour or revisit after   *)
(* an answer on a two-item exercise                                        *)
GradeCall(d, eff) ==
    /\ d \in 1..Len(due) /\ due[d].active /\ due[d].kind \in {"detour", "revisit"}
    /\ due[d].ex < RevisitCap
    /\ due' = [due EXCEPT ![d] = AdvancedRow([@ EXCEPT !.corr = IF eff THEN @ + 1 ELSE @],
                                              ShownCap, eff)]
    /\ ev' = [NoEvent EXCEPT !.op = "grade", !.u = due[d].uid, !.adv = d,
                             !.adveff = eff]
    /\ UNCHANGED <<flight, approved, attempts, why, st, gen, now>>

NextDue ==
    \/ \E u \in approved, unit_keys \in EnsureUnitKeys, keys \in EnsureRuleKeys :
          EnsureCall(u, unit_keys, keys)
    \/ \E d \in 1..MaxRows : CompleteCall(d)
    \/ \E d \in 1..MaxRows, eff \in BOOLEAN : GradeCall(d, eff)
    \/ now < MaxCallTime /\ Tick

SpecDue == Init /\ [][NextDue]_vars

(* ------------------------- two learners at once ------------------------ *)
(* both learners are approved; every answer is a near miss, which the      *)
(* difficulty of the learner turns into a pass (normal) or a failure       *)
(* (strict)                                                                *)
InitTwo ==
    /\ approved = AllUsers
    /\ due = <<>>
    /\ attempts = <<>>
    /\ why = <<>>
    /\ st = [u \in AllUsers |-> InitState]
    /\ gen = {}
    /\ now = 0
    /\ ev = NoEvent
    /\ flight = [h \in Handlers |-> IdleFlight]

NextTwo ==
    \/ \E u \in AllUsers : AnswerPlacement(u, "almost", MaxTwo)
    \/ \E u \in AllUsers : AnswerDue(u, "almost", MaxTwo)
    \/ \E u \in AllUsers : st[u].mode = "await_next" /\ OnNext(u, st[u].last)
    \/ \E u \in AllUsers, out \in {"correct", "error"} :
          st[u].mode = "await_next" /\ OnWhy(u, st[u].last, out)
    \/ \E u \in AllUsers : StartPlacement(u)
    \/ \E u \in AllUsers : ResetProgress(u)
    \/ \E u \in AllUsers, mode \in {"normal", "strict"} :
          st[u].acc # mode /\ SetDifficulty(u, mode)

SpecTwo == InitTwo /\ [][NextTwo]_vars

(* ---------------------- recovery after a restart ----------------------- *)
MaxRec == 3

(* the body of the loop of resume_stuck_users_on_startup for the learner   *)
(* u on the tables T; refuse: the bot's send to u raises. The result holds *)
(* the tables of the database after it, whether u was found stuck, whether *)
(* the recovery of u failed, whether the Next of u's last attempt was      *)
(* replayed, the number of questions and notices sent, whether a send      *)
(* raised, and whether an exception left the loop (_is_stuck_state is      *)
(* called outside the try)                                                 *)
RecoverOne_not_marked(T, u, refuse, gs) ==
    IF u \notin approved \/ T.st[u].mode \notin {"await_next", "placement"} \cup Kinds
          \/ T.st[u].rec = "now"
    THEN [T |-> T, stuck |-> FALSE, failed |-> FALSE, replayed |-> FALSE,
          sent |-> 0, left |-> FALSE, calls |-> 0, raised |-> FALSE]
    ELSE
    Let([Session(T.due, T.st, T.gen) EXCEPT !.refuse = refuse], LAMBDA S0 :
    Let(is_stuck_state(S0, gs, u), LAMBDA k :
        IF k.S.abort \/ ~k.stuck
        THEN [T |-> k.S.saved, stuck |-> FALSE, failed |-> FALSE,
              replayed |-> FALSE, sent |-> 0, left |-> k.S.abort,
              calls |-> k.S.calls, raised |-> FALSE]
        ELSE
    Let(T.st[u].mode = "await_next" /\ T.st[u].last # 0
            /\ attempts[T.st[u].last].uid = u, LAMBDA replay :
    Let(IF replay
        THEN handle_next_action(k.S, gs, u, attempts[T.st[u].last],
                                why[T.st[u].last] = "flipped", now)
        ELSE ask_next_due_or_placement(k.S, gs, u, now), LAMBDA S1 :
        [T |-> IF S1.abort THEN S1.saved
               ELSE [S1.saved EXCEPT !.due = S1.due, !.gen = S1.gen,
                                     !.st = S1.st],
         stuck |-> TRUE, failed |-> S1.abort, replayed |-> replay,
         sent |-> S1.sent, left |-> FALSE, calls |-> S1.calls,
         raised |-> S1.raised]))))

RecoverOne(T, u, refuse, gs) ==
    IF u \notin approved \/ T.st[u].mode \notin {"await_next", "placement"} \cup Kinds
          \/ T.st[u].rec = "now"
    THEN [T |-> T, stuck |-> FALSE, failed |-> FALSE, replayed |-> FALSE,
          sent |-> 0, left |-> FALSE, calls |-> 0, raised |-> FALSE]
    ELSE
    Let([Session(T.due, T.st, T.gen) EXCEPT !.refuse = refuse], LAMBDA S0 :
    Let(is_stuck_state(S0, gs, u), LAMBDA k :
        IF k.S.abort \/ ~k.stuck
        THEN [T |-> k.S.saved, stuck |-> FALSE, failed |-> FALSE,
              replayed |-> FALSE, sent |-> 0, left |-> k.S.abort,
              calls |-> k.S.calls, raised |-> FALSE]
        ELSE
    Let(T.st[u].mode = "await_next" /\ T.st[u].last # 0
            /\ attempts[T.st[u].last].uid = u, LAMBDA replay :
    Let(IF replay
        THEN handle_next_action(k.S, gs, u, attempts[T.st[u].last],
                                why[T.st[u].last] = "flipped", now)
        ELSE ask_next_due_or_placement(k.S, gs, u, now), LAMBDA S1 :
        [T |-> IF S1.abort THEN S1.saved
               ELSE [S1.saved EXCEPT !.due = S1.due, !.gen = S1.gen,
                                     !.st = [S1.st EXCEPT ![u].rec = "now"]],
         stuck |-> TRUE, failed |-> S1.abort, replayed |-> replay,
         sent |-> S1.sent, left |-> FALSE, calls |-> S1.calls,
         raised |-> S1.raised]))))

(* the loop over the candidates user_ids (approved learners whose mode is  *)
(* not idle, in the order of their ids), under every outcome of the        *)
(* generation calls: the results of the loop bodies, one per candidate     *)
(* reached; a loop body that makes no generation call does not depend on   *)
(* their outcomes                                                          *)
RECURSIVE RecoveryLoop(_, _, _)
RecoveryLoop(T, user_ids, refused) ==
    IF user_ids = <<>> THEN {<<>>}
    ELSE UNION {IF r.left THEN {<<r>>}
                ELSE {<<r>> \o rest : rest \in RecoveryLoop(r.T, Tail(user_ids), refused)} :
                r \in Let(RecoverOne(T, Head(user_ids), Head(user_ids) \in refused,
                                      NoOracle), LAMBDA r0 :
                           IF r0.calls = 0 THEN {r0}
                           ELSE {RecoverOne(T, Head(user_ids),
                                            Head(user_ids) \in refused, gs) :
                                    gs \in Oracles})}

(* resume_stuck_users_on_startup; refused: the chats the bot cannot send to *)
resume_stuck_users_on_startup(refused) ==
    /\ LET user_ids == SelectSeq(SortedSeq(AllUsers), LAMBDA u :
                           u \in approved
                           /\ st[u].mode \in {"await_next", "placement"} \cup Kinds)
           Of(run, u) == {i \in 1..Len(run) : user_ids[i] = u}
       IN  \E run \in RecoveryLoop([due |-> due, st |-> st, gen |-> gen], user_ids, refused) :
              LET T == IF run = <<>> THEN [due |-> due, st |-> st, gen |-> gen] ELSE run[Len(run)].T
              IN  /\ Len(T.due) <= MaxDue
                  /\ due' = T.due
                  /\ st' = T.st
                  /\ gen' = T.gen
                  /\ ev' = [op |-> "recovery", u |-> 0, refused |-> refused,
                            reached |-> {user_ids[i] : i \in 1..Len(run)},
                            stuck |-> {user_ids[i] : i \in {j \in 1..Len(run) : run[j].stuck}},
                            failed |-> {user_ids[i] : i \in {j \in 1..Len(run) : run[j].failed}},
                            unsent |-> {user_ids[i] : i \in {j \in 1..Len(run) : run[j].raised}},
                            replayed |-> {user_ids[i] : i \in {j \in 1..Len(run) : run[j].replayed}},
                            sent |-> [u \in AllUsers |->
                                         IF Of(run, u) = {} THEN 0
                                         ELSE run[CHOOSE i \in Of(run, u) : TRUE].sent],
                            left |-> run # <<>> /\ run[Len(run)].left,
                            \* the learners the run just before recovered
                            after |-> IF ev.op = "recovery" /\ ev.failed = {} /\ ~ev.left
                                      THEN ev.stuck ELSE {}]
    /\ UNCHANGED <<flight, approved, attempts, why, now>>

(* two learners take the placement test and the first one goes on with    *)
(* the due items; the bot is restarted at any time, with any set of chats  *)
(* it cannot send to, and a restart follows another within the recovery    *)
(* window                                                                  *)
NextRecovery ==
    \/ \E u \in AllUsers : AnswerPlacement(u, "wrong", MaxRec)
    \/ \E u \in {1}, v \in {"correct", "wrong"} : AnswerDue(u, v, MaxRec)
    \/ \E u \in {1} : st[u].mode = "await_next" /\ OnNext(u, st[u].last)
    \/ \E u \in AllUsers : StartPlacement(u)
    \/ \E refused \in SUBSET AllUsers : resume_stuck_users_on_startup(refused)

SpecRecovery == InitTwo /\ [][NextRecovery]_vars

(* --------------- two answers of one learner handled at once ------------ *)
(* on_answer up to its first await after reading the user state: the       *)
(* handler holds the row as it read it (the session does not expire it)    *)
AnswerBegin(h, u) ==
    /\ u \in approved
    /\ flight[h].pc = "idle"
    /\ Len(attempts) < MaxConc
    /\ \/ st[u].mode = "placement" /\ st[u].pp # 0
       \/ st[u].mode \in Kinds /\ st[u].pd # 0
    /\ flight' = [flight EXCEPT ![h] = [pc |-> "read", u |-> u, row |-> st[u]]]
    /\ ev' = [NoEvent EXCEPT !.op = "begin", !.u = u]
    /\ UNCHANGED <<approved, due, attempts, why, st, gen, now>>

(* the rest of on_answer: the answer is graded against the pending item of *)
(* the row read, the attempt is inserted, and the row is written back      *)
AnswerEnd(h, verdict) ==
    /\ flight[h].pc = "read"
    /\ LET u == flight[h].u
           ST == [st EXCEPT ![u] = flight[h].row]
       IN  \/ AnswerPlacementAs(u, verdict, MaxConc, ST)
           \/ AnswerDueAs(u, verdict, MaxConc, ST)
           \* the due item read is no longer active: the handler returns
           \/ /\ ST[u].mode \in Kinds /\ ST[u].pd # 0
              /\ ~due[ST[u].pd].active
              /\ ev' = [NoEvent EXCEPT !.op = "return", !.u = u]
              /\ UNCHANGED <<approved, due, attempts, why, st, gen, now>>
    /\ flight' = [flight EXCEPT ![h] = IdleFlight]

NextConc ==
    \/ \E h \in Handlers, u \in AllUsers : AnswerBegin(h, u)
    \/ \E h \in Handlers, v \in Verdicts : AnswerEnd(h, v)
    \/ \E u \in AllUsers :
          /\ \A h \in Handlers : flight[h].pc = "idle"
          /\ st[u].mode = "await_next" /\ OnNext(u, st[u].last)
    \/ \E u \in AllUsers :
          /\ \A h \in Handlers : flight[h].pc = "idle"
          /\ StartPlacement(u)

SpecConc == Init /\ [][NextConc]_vars

(* ---------------------- the graders on their own ----------------------- *)
(* the graders keep no state: a behaviour is one call, made on the empty   *)
(* tables                                                                  *)
Rep(c, n) == AsTuple([i \in 1..n |-> c])
Modes == {"easy", "normal", "strict"}

FreeAnswers ==
    {<<"d", "o", "e", "s", "n", "t">>,
     <<" ", "D", "o", "e", "s", "n", "rsquo", "t", ".">>,
     <<"d", "o", "e", "s", " ", "n", "o", "t">>,
     <<"d", "o", "n", "t">>,
     <<"d", "o">>,
     <<"5">>,
     <<"d", "o", "e", "s", "n", "'", "t">>,
     Rep("a", LongLen),
     Rep("a", LongLen) \o <<"b", "b", "b">>,
     Rep("a", LongLen - 3),
     Rep("a", LongLen - 2)}

FreeCanonicals ==
    {<<"d", "o", "e", "s", "n", "'", "t">>, <<"5">>,
     Rep("a", LongLen), Rep("a", LongLen + 1)}

FreeVariants == {<<>>, << <<>>, <<"d", "o", "e", "s", "n", "o", "t">> >>}

(* a call of grade_freetext *)
GradeFreetextCall(user, canonical, accepted_variants, mode) ==
    /\ ev.op = "init"
    /\ ev' = [op |-> "grade_freetext", u |-> 0, user |-> user,
              canonical |-> canonical, variants |-> accepted_variants,
              mode |-> mode,
              result |-> grade_freetext(user, canonical, accepted_variants, mode)]
    /\ UNCHANGED <<flight, approved, due, attempts, why, st, gen, now>>

(* a call of _is_close as grade_freetext makes it: on the comparison form  *)
(* of an answer and a target, both non-empty                               *)
IsCloseCall(user, canonical) ==
    /\ ev.op = "init"
    /\ \E a \in {norm_cmp_text(user)}, b \in {norm_cmp_text(canonical)} :
          /\ a # <<>> /\ b # <<>>
          /\ ev' = [op |-> "is_close", u |-> 0, answer |-> a, target |-> b,
                    distance |-> levenshtein(a, b), close |-> is_close(a, b)]
    /\ UNCHANGED <<flight, approved, due, attempts, why, st, gen, now>>

(* a call of _effective_correct and of _should_attach_remediation *)
EffectiveCall(verdict, flipped, mode) ==
    /\ ev.op = "init"
    /\ ev' = [op |-> "effective", u |-> 0, verdict |-> verdict,
              flipped |-> flipped, mode |-> mode,
              effective |-> effective_correct(verdict, flipped, mode),
              remediation |-> should_attach_remediation(verdict, mode, flipped)]
    /\ UNCHANGED <<flight, approved, due, attempts, why, st, gen, now>>

OptionLists ==
    {<< <<"i", "t", "s">>, <<"i", "t", "'", "s">> >>,
     << <<"d", "o">>, <<"d", "o", "e", "s">>, <<"d", "i", "d">> >>,
     << <<"i", "t", "s">>, <<"i", "t", "'", "s">>, <<"i", "s">> >>,
     << <<"a", "n">>, <<"a">> >>}

(* the correct options of an item: some of its options *)
CorrectLists(options) ==
    {<<options[1]>>, <<options[2]>>, <<options[1], options[2]>>}

OptionAnswers ==
    {<<"A">>, <<"b">>, <<"2">>, <<"5">>,
     <<"A", ",", " ", "B">>, <<"b", " ", "a">>, <<"2", ";", "A">>,
     <<"D", "o", "e", "s", ".">>, <<"i", "t", "'", "s">>, <<"n", "o">>,
     <<"A", ",", " ", "C">>, <<"A", ",", " ", "B", ",", " ", "C">>,
     <<"a">>, <<"d", "o", "e", "s">>, <<>>, <<"D">>, <<"eth1">>}

(* a call of grade_option_item; the canonical is the first correct option  *)
GradeOptionCall(user, options, selection_policy, correct_options, order_sensitive, explicit_correct_options) ==
    /\ ev.op = "init"
    /\ ev' = [op |-> "grade_option", u |-> 0, user |-> user, options |-> options,
              canonical |-> correct_options[1],
              policy |-> selection_policy, correct_options |-> correct_options,
              order_sensitive |-> order_sensitive,
              explicit |-> explicit_correct_options,
              selections |-> map_user_selections(user, options),
              result |-> grade_option_item(user, correct_options[1], <<>>, options,
                                           selection_policy, correct_options,
                                           order_sensitive,
                                           explicit_correct_options)]
    /\ UNCHANGED <<flight, approved, due, attempts, why, st, gen, now>>

NormTexts ==
    {<<"D", "o", "e", "s", "n", "rsquo", "t", "!">>, <<"a", ".", " ", ".">>,
     <<" ", "a", " ", "nl", "b", "?", ",">>, <<".", " ", ".">>,
     <<"i", "t", "'", "s">>, <<"Idot", "s">>, <<"a", ".", "b">>, <<>>}

(* a call of norm_answer_text and of norm_cmp_text, and a second call on   *)
(* what the first returned                                                 *)
NormCall(s) ==
    /\ ev.op = "init"
    /\ ev' = [op |-> "norm", u |-> 0, text |-> s,
              answer |-> norm_answer_text(s),
              answer_again |-> norm_answer_text(norm_answer_text(s)),
              cmp |-> norm_cmp_text(s),
              cmp_again |-> norm_cmp_text(norm_cmp_text(s))]
    /\ UNCHANGED <<flight, approved, due, attempts, why, st, gen, now>>

NextGrader ==
    \/ \E s \in NormTexts \cup OptionAnswers \cup FreeAnswers : NormCall(s)
    \/ \E user \in FreeAnswers, canonical \in FreeCanonicals,
          accepted_variants \in FreeVariants, mode \in Modes :
          GradeFreetextCall(user, canonical, accepted_variants, mode)
    \/ \E user \in FreeAnswers, canonical \in FreeCanonicals :
          IsCloseCall(user, canonical)
    \/ \E verdict \in Verdicts, flipped \in BOOLEAN, mode \in Modes :
          EffectiveCall(verdict, flipped, mode)
    \/ \E user \in OptionAnswers, options \in OptionLists,
          selection_policy \in {"any", "all"}, order_sensitive \in BOOLEAN,
          explicit_correct_options \in BOOLEAN :
          \E correct_options \in CorrectLists(options) :
              GradeOptionCall(user, options, selection_policy, correct_options,
                              order_sensitive, explicit_correct_options)

SpecGrader == Init /\ [][NextGrader]_vars

(* ------------------------------ claims --------------------------------- *)
(* C1: after any sequence of events handled one at a time there is at most *)
(* one active due item per learner and unit, whatever its kind.            *)
C1_UniqueActiveDue ==
    \A i, j \in 1..Len(due) :
        (i # j /\ due[i].active /\ due[j].active /\ due[i].uid = due[j].uid)
            => due[i].unit # due[j].unit

(* a completed due item with its active successor, next to an active due   *)
(* item of another unit                                                    *)
C1_Witness ==
    \E i, j, k \in 1..Len(due) :
        /\ ~due[i].active /\ due[j].active /\ due[k].active
        /\ due[i].unit = due[j].unit /\ due[k].unit # due[j].unit
        /\ due[i].uid = due[j].uid /\ due[k].uid = due[j].uid


(* C2: a step that completes a detour or revisit leaves it inactive and    *)
(* creates exactly one successor for the same learner and unit: a revisit  *)
(* due 2 days later after a detour, a check due 7 days later after a       *)
(* revisit; the successor is active, at exercise 1, item 1, 0 correct, and *)
(* carries the cause keys of the completed item.                           *)
C2_CompletionCreatesSuccessor ==
    [][\A d \in 1..Len(due') :
          (/\ ~due'[d].active
           /\ d > Len(due) \/ due[d].active
           /\ due'[d].kind \in {"detour", "revisit"})
          => LET succ == {j \in (Len(due) + 1)..Len(due') :
                            /\ j # d
                            /\ due'[j].uid = due'[d].uid
                            /\ due'[j].unit = due'[d].unit}
             IN  /\ Cardinality(succ) = 1
                 /\ \A j \in succ :
                       /\ due'[j].kind = (IF due'[d].kind = "detour" THEN "revisit"
                                          ELSE "check")
                       /\ due'[j].due_at = now + (IF due'[d].kind = "detour" THEN 2 ELSE 7)
                       /\ due'[j].active
                       /\ due'[j].ex = 1 /\ due'[j].item = 1 /\ due'[j].corr = 0
                       /\ due'[j].keys = due'[d].keys]_vars

(* right after the answer that completed a revisit: the revisit is         *)
(* inactive, its detour was completed before it, and the check is due in   *)
(* 7 days                                                                  *)
C2_Witness ==
    \E i, j, k \in 1..Len(due) :
        /\ j \in ev.done
        /\ due[i].kind = "detour" /\ ~due[i].active
        /\ due[j].kind = "revisit" /\ ~due[j].active /\ due[j].unit = due[i].unit
        /\ due[k].kind = "check" /\ due[k].active /\ due[k].unit = due[i].unit
        /\ due[k].due_at = now + 7

(* the number of items shown for the exercise a due item is at, G being    *)
(* the exercises that exist                                                *)
ShownCount(G, d) == Len(due_current_item(Session(due, st, G), NoOracle, d).shown)

(* C3: an effectively-correct answer on an active detour or revisit adds 1 *)
(* to correct_in_exercise; when that reaches min(2, items shown) the       *)
(* exercise is complete (exercise_index + 1, item 1, 0 correct); otherwise *)
(* item_in_exercise + 1, and past the last item the same advance applies.  *)
C3_EffectiveCorrectAdvance ==
    [][\A d \in 1..Len(due) :
          (/\ ev'.adv = d /\ ev'.adveff
           /\ due[d].active /\ due[d].kind \in {"detour", "revisit"})
          => LET n == ShownCount(gen', d)
                 correct == due[d].corr + 1
                 complete == /\ due'[d].ex = due[d].ex + 1
                             /\ due'[d].item = 1
                             /\ due'[d].corr = 0
             IN  IF correct = (IF 2 < n THEN 2 ELSE n) THEN complete
                 ELSE IF due[d].item + 1 > n THEN complete
                 ELSE /\ due'[d].ex = due[d].ex
                      /\ due'[d].item = due[d].item + 1
                      /\ due'[d].corr = correct]_vars

(* right after the second correct answer in a two-item exercise of a       *)
(* detour: the detour is at its second exercise, first item                *)
C3_Witness ==
    \E d \in 1..Len(due), a, b \in 1..Len(attempts) :
        /\ ev.adv = d /\ ev.adveff
        /\ a < b /\ attempts[a].did = d /\ attempts[b].did = d
        /\ due[d].kind = "detour" /\ due[d].active /\ due[d].unit = "u1"
        /\ due[d].ex = 2 /\ due[d].item = 1 /\ due[d].corr = 0

(* C4: an answer that is not effectively correct, on an active detour or   *)
(* revisit, sets item_in_exercise = 1 and correct_in_exercise = 0 and      *)
(* changes nothing else in the due table: the item is not completed and no *)
(* successor is created.                                                   *)
C4_NotCorrectResetsOnly ==
    [][/\ \A d \in 1..Len(due) :
            (/\ ev'.adv = d /\ ~ev'.adveff
             /\ due[d].active /\ due[d].kind \in {"detour", "revisit"})
            => due' = [due EXCEPT ![d].item = 1, ![d].corr = 0]
       /\ (ev'.op = "answer" /\ ~ev'.eff) => due' = due]_vars

(* right after Next on a wrong answer that followed a correct one on the   *)
(* same detour: the counters are back at item 1, 0 correct                 *)
C4_Witness ==
    \E d \in 1..Len(due), a, b \in 1..Len(attempts) :
        /\ ev.op = "next" /\ ev.a = b /\ ev.adv = d /\ ~ev.adveff
        /\ a < b /\ attempts[a].did = d /\ attempts[b].did = d
        /\ attempts[a].verdict = "correct" /\ attempts[b].verdict = "wrong"
        /\ due[d].kind = "detour" /\ due[d].active
        /\ due[d].item = 1 /\ due[d].corr = 0

(* the answers given so far on a due item *)
AnswersOn(A, d) == Cardinality({a \in 1..Len(A) : A[a].did = d})

(* C5: a detour or revisit whose n selected exercises all show 2 items,    *)
(* answered effectively correctly every time, is still active after each   *)
(* of its first 2n-1 answers and is completed by answer 2n (8 for a detour *)
(* with 4 exercises, 4 for a revisit with 2); it never gets more than 2n   *)
(* answers, and the completing answer leaves exactly one successor, at     *)
(* exercise_index = 1.                                                     *)
C5_CompletesOnAnswer2n ==
    [][\A d \in 1..Len(due) :
          LET selected == due_selected_exercises(gen', d, due[d])
              n == Len(selected)
              k == AnswersOn(attempts', d)
              succ == {j \in (Len(due) + 1)..Len(due') :
                          /\ due'[j].uid = due[d].uid
                          /\ due'[j].unit = due[d].unit}
          IN  (/\ Len(attempts') = Len(attempts) + 1
               /\ attempts'[Len(attempts')].did = d
               /\ due[d].kind \in {"detour", "revisit"}
               /\ n >= 1
               /\ \A i \in 1..n : Len(ShownItems(due[d], selected[i])) = 2)
              => /\ k <= 2 * n
                 /\ k < 2 * n => due'[d].active /\ succ = {}
                 /\ k = 2 * n
                       => /\ ~due'[d].active
                          /\ Cardinality(succ) = 1
                          /\ \A j \in succ : due'[j].ex = 1 /\ due'[j].active]_vars

(* right after the fourth answer on a revisit whose detour took eight: the *)
(* revisit is completed and its check is scheduled                         *)
C5_Witness ==
    \E d, r, c \in 1..Len(due) :
        /\ ev.op = "answer" /\ r \in ev.done
        /\ due[d].kind = "detour" /\ ~due[d].active /\ AnswersOn(attempts, d) = 8
        /\ due[r].kind = "revisit" /\ ~due[r].active /\ AnswersOn(attempts, r) = 4
        /\ due[r].unit = due[d].unit
        /\ due[c].kind = "check" /\ due[c].active /\ due[c].ex = 1
        /\ due[c].unit = due[d].unit

(* C6: a check is a single-question probe.  When its effectively-correct   *)
(* answer is handled the check becomes inactive and the unit gets no       *)
(* successor and has no active due item; when Next is handled for an       *)
(* answer that is not effectively correct the unit has exactly one active  *)
(* due item, a detour due now at exercise 1, item 1, 0 correct.            *)
C6_CheckSingleProbe ==
    [][\A d \in 1..Len(due) :
          (due[d].active /\ due[d].kind = "check")
          => LET mine == {j \in 1..Len(due') : /\ due'[j].uid = due[d].uid
                                               /\ due'[j].unit = due[d].unit}
             IN  /\ (ev'.adv = d /\ ev'.adveff)
                       => /\ ~due'[d].active
                          /\ \A j \in mine : ~due'[j].active /\ j <= Len(due)
                 /\ (/\ ev'.op \in {"next", "recover"} /\ ev'.a # 0
                      /\ attempts[ev'.a].did = d /\ ~ev'.eff)
                       => /\ Cardinality({j \in mine : due'[j].active}) = 1
                          /\ \A j \in mine : due'[j].active =>
                                /\ due'[j].kind = "detour"
                                /\ due'[j].due_at = now
                                /\ due'[j].ex = 1 /\ due'[j].item = 1
                                /\ due'[j].corr = 0]_vars

(* right after Next on the wrong answer to a check: the unit is back at a  *)
(* detour due now                                                          *)
C6_Witness ==
    /\ ev.op = "next" /\ ev.a # 0 /\ ~ev.eff
    /\ attempts[ev.a].mode = "check"
    /\ due[attempts[ev.a].did].kind = "detour"
    /\ due[attempts[ev.a].did].active
    /\ due[attempts[ev.a].did].due_at = now

(* the keys ensure_detours_for_units takes for a unit out of those passed:  *)
(* the keys of the unit, or all of them when none is of the unit           *)
KeysFor(unit, passed) ==
    IF \E i \in 1..Len(passed) : passed[i][1] = unit
    THEN {passed[i] : i \in {k \in 1..Len(passed) : passed[k][1] = unit}}
    ELSE {passed[i] : i \in 1..Len(passed)}

(* the active due items of a learner for a unit *)
ActiveFor(D, uid, unit) ==
    {i \in 1..Len(D) : D[i].uid = uid /\ D[i].unit = unit /\ D[i].active}

(* C7: ensure_detours_for_units on a unit whose active due item is a       *)
(* revisit or a check converts that due item in place: it becomes a detour *)
(* at exercise 1, item 1, 0 correct, batch 1, due now, its cause keys are  *)
(* the old keys merged with the new ones without duplicates, and no due    *)
(* item is created for the unit.                                           *)
C7_EnsureConvertsInPlace ==
    [][ev'.op = "ensure" =>
          \A x \in Range(ev'.units) : \A e \in ActiveFor(due, ev'.u, x) :
              due[e].kind \in {"revisit", "check"}
                  => /\ due'[e].kind = "detour" /\ due'[e].active
                     /\ due'[e].uid = due[e].uid /\ due'[e].unit = x
                     /\ due'[e].ex = 1 /\ due'[e].item = 1 /\ due'[e].corr = 0
                     /\ due'[e].batch = 1
                     /\ due'[e].due_at = now
                     /\ Range(due'[e].keys) = Range(due[e].keys) \cup KeysFor(x, ev'.keys)
                     /\ Cardinality(Range(due'[e].keys)) = Len(due'[e].keys)
                     /\ \A j \in (Len(due) + 1)..Len(due') :
                           ~(due'[j].uid = ev'.u /\ due'[j].unit = x)]_vars

(* right after a call that converted a revisit before it was due, gaining  *)
(* a key: the row that followed a completed detour is a detour due now     *)
C7_Witness ==
    \E i, e \in 1..Len(due) :
        /\ ev.op = "ensure" /\ i < e
        /\ due[i].kind = "detour" /\ ~due[i].active
        /\ due[i].uid = due[e].uid /\ due[i].unit = due[e].unit
        /\ due[e].kind = "detour" /\ due[e].active /\ due[e].due_at = now
        /\ due[e].unit \in Range(ev.units) /\ due[e].uid = ev.u
        /\ Len(due[e].keys) > Len(due[i].keys)
        /\ \A j \in 1..Len(due) : j > e => due[j].unit # due[e].unit

C10_FailureLeavesDueUntouched ==
    [][/\ \A x \in ev'.genfail :
            /\ \A d \in 1..Len(due) :
                  (due[d].unit = x /\ due[d].uid = ev'.u /\ due[d].active)
                      => due'[d].active
            /\ \A j \in (Len(due) + 1)..Len(due') :
                  (due'[j].unit = x /\ due'[j].uid = ev'.u)
                      => due'[j].kind = "detour" /\ due'[j].active
            /\ ev'.op = "start" => due' = due
       /\ (ev'.op = "why" /\ ev'.abort) => due' = due]_vars

(* C11: handlers of one learner never interleave between reading the user  *)
(* state and writing: when a handler ends, the user state is still the one *)
(* it read, and so two answers delivered at once to one presented item     *)
(* leave one attempt: the second handler finds nothing pending.            *)
C11_HandlersSerialized ==
    [][\A h \in Handlers :
          (flight[h].pc = "read" /\ flight'[h].pc = "idle")
              => st[flight[h].u] = flight[h].row]_vars

C13_SelectionReproducible ==
    [][\A d \in 1..Len(due) :
          (due'[d].unit = due[d].unit /\ due'[d].kind = due[d].kind)
              => due_selected_exercises(gen', d, due'[d])
                     = due_selected_exercises(gen, d, due[d])]_vars

(* C14: at every moment the selected list of a detour or revisit has no    *)
(* duplicates, holds only indices of exercises that exist for the unit and *)
(* do not exceed the unit's maximum real index (the largest existing       *)
(* index, at most 6), and its length is min(cap, pool size), the cap being *)
(* 4 for a detour and 2 for a revisit; an exercise a handler fetched for   *)
(* the due item is a member of the list.                                   *)
C14_SelectedListSound ==
    \A d \in 1..Len(due) :
        due[d].kind \in {"detour", "revisit"}
            => LET sel == due_selected_exercises(gen, d, due[d])
                   exist == StaticIndices(due[d].unit)
                                \cup {i \in 1..2 : <<due[d].unit, i>> \in gen}
                   pool == {i \in exist : i <= 6}
                   cap == IF due[d].kind = "detour" THEN 4 ELSE 2
               IN  /\ \A i, j \in 1..Len(sel) : i # j => sel[i] # sel[j]
                   /\ \A i \in 1..Len(sel) : sel[i] \in pool
                   /\ Len(sel) = (IF cap < Cardinality(pool) THEN cap
                                  ELSE Cardinality(pool))
                   /\ \A f \in ev.fetched : f[1] = d => f[2] \in Range(sel)

(* right after an answer on the second exercise of a detour whose unit has *)
(* more exercises than the cap: four of five were selected and the         *)
(* exercise fetched is the second of them                                  *)
C14_Witness ==
    \E d \in 1..Len(due) :
        /\ due[d].kind = "detour" /\ due[d].unit = "u1" /\ due[d].ex = 2
        /\ Len(due_selected_exercises(gen, d, due[d])) = 4
        /\ <<d, due_selected_exercises(gen, d, due[d])[2]>> \in ev.fetched

(* C15: an attempt is effectively correct exactly when the explanation     *)
(* flipped it, or its verdict is correct, or its verdict is almost and the *)
(* acceptance mode is easy or normal; remediation is attached exactly when *)
(* the attempt is not effectively correct.                                 *)
C15_EffectiveCorrect ==
    ev.op = "effective"
        => /\ ev.effective
                <=> \/ ev.flipped
                    \/ ev.verdict = "correct"
                    \/ ev.verdict = "almost" /\ ev.mode \in {"easy", "normal"}
           /\ ev.remediation <=> ~ev.effective

(* a near miss under strict, not flipped: not effectively correct, and the *)
(* rule is attached                                                        *)
C15_Witness ==
    /\ ev.op = "effective" /\ ev.verdict = "almost" /\ ev.mode = "strict"
    /\ ~ev.flipped /\ ~ev.effective /\ ev.remediation

(* C16: handling Why changes no stored attempt (its verdict stays as       *)
(* graded), no due item and no user state; a flip is recorded beside the   *)
(* attempt, in the Why cache, where Next reads it.                         *)
C16_WhyKeepsAttempt ==
    [][ev'.op = "why"
          => /\ attempts' = attempts
             /\ due' = due /\ st' = st
             /\ \A a \in 1..Len(why) : a # ev'.a => why'[a] = why[a]]_vars

(* right after a Why whose explanation began with CORRECT, on an attempt   *)
(* graded wrong: the flip is in the cache, the verdict is still wrong      *)
C16_Witness ==
    /\ ev.op = "why" /\ ev.a # 0 /\ ~ev.abort
    /\ why[ev.a] = "flipped"
    /\ attempts[ev.a].verdict = "wrong"

(* C17: grade_freetext returns correct, in every mode, when the comparison *)
(* form of the answer equals that of the canonical or of an accepted       *)
(* variant; otherwise, when some target is within the edit-distance        *)
(* threshold, correct under easy and almost under normal and strict;       *)
(* otherwise wrong.                                                        *)
C17_GradeFreetext ==
    ev.op = "grade_freetext"
        => LET user_cmp == norm_cmp_text(ev.user)
               targets == {norm_cmp_text(ev.canonical)}
                              \cup {norm_cmp_text(x) : x \in Range(ev.variants)}
               near == \E t \in targets : is_close(user_cmp, t)
           IN  ev.result.verdict =
                   (IF user_cmp \in targets THEN "correct"
                    ELSE IF near THEN (IF ev.mode = "easy" THEN "correct" ELSE "almost")
                    ELSE "wrong")

(* the canonical without its apostrophes *)
WithoutApostrophe(s) == Pick(s, {i \in 1..Len(s) : s[i] # "'"})

(* C18 as the code has it: an answer that differs from the canonical only  *)
(* by a missing apostrophe, with no accepted variants, is graded correct   *)
(* under every strictness mode.                                            *)
C18_MissingApostropheCorrect ==
    (/\ ev.op = "grade_freetext" /\ ev.variants = <<>>
     /\ "'" \in Range(ev.canonical)
     /\ ev.user = WithoutApostrophe(ev.canonical))
        => ev.result.verdict = "correct"

(* "doesnt" for "doesn't" under strict: correct *)
C18_Witness ==
    /\ ev.op = "grade_freetext" /\ ev.variants = <<>> /\ ev.mode = "strict"
    /\ ev.user = <<"d", "o", "e", "s", "n", "t">>
    /\ ev.canonical = <<"d", "o", "e", "s", "n", "'", "t">>
    /\ ev.result.verdict = "correct"

(* C18 as stated: such an answer is graded correct under easy and almost   *)
(* under strict.                                                           *)
C18_MissingApostropheAlmostStrict ==
    (/\ ev.op = "grade_freetext" /\ ev.variants = <<>>
     /\ "'" \in Range(ev.canonical)
     /\ ev.user = WithoutApostrophe(ev.canonical))
        => /\ ev.mode = "easy" => ev.result.verdict = "correct"
           /\ ev.mode = "strict" => ev.result.verdict = "almost"

(* C19: the near-miss threshold depends only on the target, 2 when the     *)
(* target has at most 20 normalized characters and 3 otherwise, whatever   *)
(* the length of the answer; an answer is a near miss of a target exactly  *)
(* when its Levenshtein distance to it is at most that threshold.          *)
C19_ThresholdByTarget ==
    ev.op = "is_close"
        => (ev.close <=> ev.distance <= (IF Len(ev.target) <= 20 THEN 2 ELSE 3))

(* C20: under selection policy any, with a non-empty mapped selection, the *)
(* verdict is correct exactly when one option was selected and it is in    *)
(* the correct set; almost, with the note to choose one option, exactly    *)
(* when more than one option was selected and at least one of them is in   *)
(* the correct set; wrong otherwise.                                       *)
C20_PolicyAny ==
    (ev.op = "grade_option" /\ ev.policy = "any" /\ ev.selections # <<>>
        /\ ev.selections # <<Raised>>)
        => LET correct == Range(ev.correct_options)
               selected == ev.selections
           IN  /\ ev.result.verdict =
                      (IF Len(selected) = 1 /\ selected[1] \in correct THEN "correct"
                       ELSE IF Len(selected) > 1 /\ Range(selected) \cap correct # {}
                       THEN "almost"
                       ELSE "wrong")
               /\ ev.result.note = "Choose ONE option" <=> ev.result.verdict = "almost"

(* C21: under selection policy any, an answer that selects several         *)
(* options, all of them in the correct set, is graded correct with an      *)
(* empty note; the verdict is almost only for a selection of several       *)
(* options of which some but not all are in the correct set.               *)
C21_AnyAllSelectedCorrect ==
    (ev.op = "grade_option" /\ ev.policy = "any"
        /\ ev.selections \notin {<<>>, <<Raised>>})
        => LET correct == Range(ev.correct_options)
               selected == Range(ev.selections)
           IN  /\ (Len(ev.selections) > 1 /\ selected \subseteq correct)
                     => (ev.result.verdict = "correct" /\ ev.result.note = "")
               /\ ev.result.verdict = "almost"
                     => /\ Len(ev.selections) > 1
                        /\ selected \cap correct # {}
                        /\ ~(selected \subseteq correct)

(* C22: under selection policy all without order sensitivity, with a       *)
(* non-empty mapped selection, the verdict is correct exactly when the     *)
(* selected set equals the correct set; almost exactly when the two sets   *)
(* differ but intersect, and then missing lists the correct options that   *)
(* were not selected and extra the selected options that are not correct;  *)
(* wrong exactly when the two sets are disjoint.                           *)
C22_PolicyAllSets ==
    (ev.op = "grade_option" /\ ev.policy = "all" /\ ~ev.order_sensitive
        /\ ev.selections \notin {<<>>, <<Raised>>})
        => LET correct == Range(ev.correct_options)
               selected == Range(ev.selections)
           IN  /\ ev.result.verdict =
                      (IF selected = correct THEN "correct"
                       ELSE IF selected \cap correct # {} THEN "almost"
                       ELSE "wrong")
               /\ ev.result.verdict = "almost"
                     => /\ ev.result.missing =
                               SelectSeq(ev.correct_options,
                                         LAMBDA o : o \notin selected)
                        /\ ev.result.extra =
                               SelectSeq(ev.selections,
                                         LAMBDA o : o \notin correct)

(* C23: under selection policy all, order-insensitive, with explicit       *)
(* correct options, the verdict is correct whenever the selection contains *)
(* every correct option, also when it contains further options, and wrong  *)
(* when it contains only some of the correct options.                      *)
C23_PolicyAllContainsEvery ==
    (ev.op = "grade_option" /\ ev.policy = "all" /\ ~ev.order_sensitive
        /\ ev.explicit /\ ev.selections \notin {<<>>, <<Raised>>})
        => LET correct == Range(ev.correct_options)
               selected == Range(ev.selections)
           IN  /\ correct \subseteq selected => ev.result.verdict = "correct"
               /\ (selected \cap correct # {} /\ ~(correct \subseteq selected))
                     => ev.result.verdict = "wrong"

(* C24: the verdict almost is returned only when the mapped selection      *)
(* shares at least one option with the correct set, never when they share  *)
(* none; and never under policy all with order sensitivity, where the      *)
(* verdict is correct exactly when the selected sequence equals the        *)
(* correct sequence and wrong otherwise.                                   *)
C24_AlmostNeedsOverlap ==
    (ev.op = "grade_option" /\ ev.selections # <<Raised>>)
        => /\ ev.result.verdict = "almost"
                 => Range(ev.selections) \cap Range(ev.correct_options) # {}
           /\ (ev.policy = "all" /\ ev.order_sensitive)
                 => ev.result.verdict =
                        (IF ev.selections = ev.correct_options THEN "correct"
                         ELSE "wrong")

(* the answers that name option i of the call: its letter in either case,  *)
(* its 1-based number, its literal text                                    *)
NamesOption(user, options, i) ==
    \/ Len(user) = 1 /\ upper(user[1]) = LetterKeys[i]
    \/ isdigit(user) /\ ~IntRaises(user) /\ ToInt(user) = i
    \/ user = options[i]

(* C25: for every option item and every option i of it, an answer that is  *)
(* the letter of option i, its 1-based number or its literal text is       *)
(* mapped to the selection of option i alone, and gets the verdict that    *)
(* the letter of option i gets.                                            *)
C25_LetterNumberTextAgree ==
    ev.op = "grade_option"
        => \A i \in 1..Len(ev.options) :
              NamesOption(ev.user, ev.options, i)
                 => /\ ev.selections = <<ev.options[i]>>
                    /\ ev.result.verdict =
                           grade_option_item(<<LetterKeys[i]>>, ev.canonical, <<>>,
                                             ev.options, ev.policy,
                                             ev.correct_options,
                                             ev.order_sensitive,
                                             ev.explicit).verdict

(* C26: grading an option item is total: an answer that is mapped to no    *)
(* option (empty text, unknown letter, number out of range, unmatched      *)
(* text) is graded wrong and nothing is raised, except under policy any    *)
(* without explicit correct options, where the legacy match against the    *)
(* canonical decides between correct and wrong.                            *)
C26_GradingTotal ==
    (ev.op = "grade_option"
        /\ Range(ev.selections) \cap Range(ev.options) = {})
        => IF ev.policy = "any" /\ ~ev.explicit
           THEN /\ ev.result.verdict \in {"correct", "wrong"}
                /\ ev.result.verdict =
                       legacy_mcq_match(ev.user, ev.canonical, <<>>,
                                        ev.options).verdict
           ELSE ev.result.verdict = "wrong"

(* C27: norm_cmp_text is idempotent for every string, and strings that     *)
(* differ only in letter case, in punctuation, in whitespace or in curly   *)
(* against straight quotes have the same comparison key.                   *)
C27_CmpKeyIdempotent ==
    ev.op = "norm"
        => LET s == ev.text
               upper_case == AsTuple([i \in 1..Len(s) |-> upper(s[i])])
               curly == AsTuple([i \in 1..Len(s) |->
                                    IF s[i] = "'" THEN "rsquo" ELSE s[i]])
               straight == nfkc_normalize(s)
               variants == {upper_case, curly, straight,
                            s \o <<".">>, <<"?", "!">> \o s,
                            <<" ", "nl">> \o s \o <<" ">>,
                            Pick(s, {i \in 1..Len(s) :
                                        s[i] \notin Whitespace \cup TrailingMarks})}
           IN  /\ ev.cmp_again = ev.cmp
               /\ \A t \in variants : norm_cmp_text(t) = ev.cmp

(* C28: norm_answer_text is idempotent for every string (any mix of        *)
(* letters, spaces and trailing punctuation marks).                        *)
C28_AnswerTextIdempotent ==
    ev.op = "norm" => ev.answer_again = ev.answer

C30_SendFailureLeavesLearner ==
    [][(ev'.op = "recovery" /\ ev'.unsent # {})
          => /\ \A u \in ev'.unsent :
                   /\ st'[u].rec = st[u].rec
                   /\ st'[u] = st[u]
                   /\ \A i \in 1..Len(due) : due[i].uid = u => due'[i] = due[i]
             /\ ~ev'.left
                   => \A v \in approved :
                         st[v].mode \in {"await_next", "placement"} \cup Kinds
                            => /\ v \in ev'.reached
                               /\ v \in ev'.stuck \ ev'.failed => st'[v].rec = "now"]_vars

(* C40: answering a free-text item with its own canonical text is never    *)
(* graded wrong: for every non-empty canonical, every list of accepted     *)
(* variants and every mode the verdict is correct.                         *)
C40_CanonicalIsCorrect ==
    (ev.op = "grade_freetext" /\ ev.canonical # <<>> /\ ev.user = ev.canonical)
        => ev.result.verdict = "correct"

(* C32: each attempt drives at most one scheduler transition: a Next for   *)
(* an attempt whose Next was already handled (or whose correct answer was  *)
(* already advanced automatically) changes no due item's exercise_index,   *)
(* item_in_exercise, correct_in_exercise, kind or is_active.               *)
C32_OneTransitionPerAttempt ==
    [][(ev'.op = "next" /\ attempts[ev'.a].handled)
          => \A d \in 1..Len(due) :
                /\ due'[d].ex = due[d].ex
                /\ due'[d].item = due[d].item
                /\ due'[d].corr = due[d].corr
                /\ due'[d].kind = due[d].kind
                /\ due'[d].active = due[d].active]_vars

(* C33: every handler that consumes an attempt (the automatic advance      *)
(* after an effectively-correct answer, or Next) ends with the learner's   *)
(* mode in {placement, detour, revisit, check, idle}: the learner is never *)
(* left in await_next without a Next button for the last attempt.          *)
C33_ConsumedAttemptLeavesAwaitNext ==
    ((ev.op = "answer" /\ ev.eff) \/ ev.op = "next")
        => st[ev.u].mode \in {"placement", "idle"} \cup Kinds

C36_UserStateConsistent ==
    \A u \in AllUsers :
        /\ st[u].mode \in Kinds
              => /\ st[u].pd \in 1..Len(due)
                 /\ due[st[u].pd].uid = u /\ due[st[u].pd].active
                 /\ due[st[u].pd].kind = st[u].mode
                 /\ st[u].pp = 0
        /\ st[u].mode = "placement"
              => st[u].pp \in 1..Len(PlacementItems) /\ st[u].pd = 0
        /\ st[u].mode \in {"await_next", "idle"}
              => st[u].pp = 0 /\ st[u].pd = 0

(* C31: startup recovery un-sticks learners: every learner it reports as   *)
(* resumed (found stuck and handled without a failure) ends in a state     *)
(* that the stuck predicate no longer flags: mode idle, or a mode whose    *)
(* pending item exists and is presentable.                                 *)
C31_ResumedNotStuck ==
    [][ev'.op = "recovery"
          => \A u \in ev'.stuck \ ev'.failed : \A gs \in Oracles :
                ~is_stuck_state(Session(due', st', gen'), gs, u).stuck]_vars

(* C34: no placement item is skipped: between two resets the placement     *)
(* items are presented in strictly increasing order_index, and the item    *)
(* after k is presented only after an attempt for item k has been          *)
(* recorded, whatever buttons the learner presses in between.              *)
C34_NoPlacementItemSkipped ==
    [][\A u \in AllUsers :
          (st'[u].mode = "placement" /\ st'[u].pp # 0 /\ st'[u].pp # st[u].pp)
             => /\ st'[u].pp > st[u].lpo
                /\ st'[u].pp > 1
                      => \E a \in 1..Len(attempts') :
                            /\ attempts'[a].uid = u
                            /\ attempts'[a].mode = "placement"
                            /\ attempts'[a].pid = st'[u].pp - 1]_vars

(* C35: placement is gated by due items: a placement item is presented     *)
(* only when the learner has no active due item whose due_at has passed,   *)
(* on every path that picks the next thing to present.                     *)
C35_PlacementGatedByDue ==
    [][\A u \in AllUsers :
          (st'[u].mode = "placement" /\ st'[u].pp # 0 /\ st'[u].pp # st[u].pp)
             => ~\E d \in 1..Len(due') :
                    due'[d].uid = u /\ due'[d].active /\ due'[d].due_at <= now]_vars

(* C38: no due item is presented before its due_at: a revisit is never     *)
(* shown earlier than 2 days after its detour completed and a check never  *)
(* earlier than 7 days after its revisit completed, unless                 *)
(* ensure_detours_for_units escalated it to a detour due now.  A handler   *)
(* asks only due items whose due_at has come, a successor is created with  *)
(* a due_at at least the delay after the completion, and the due_at of a   *)
(* row changes only when the row is made a detour.                         *)
C38_NotBeforeDueAt ==
    [][/\ ev'.asked # 0 => due'[ev'.asked].due_at <= now
       /\ \A d \in 1..Len(due') :
             /\ (d > Len(due) /\ due'[d].kind = "revisit")
                   => due'[d].due_at >= now + RevisitDelay
             /\ (d > Len(due) /\ due'[d].kind = "check")
                   => due'[d].due_at >= now + CheckDelay
             /\ (d <= Len(due) /\ due'[d].uid # 0 /\ due'[d].kind # "detour")
                   => due'[d].kind = due[d].kind /\ due'[d].due_at = due[d].due_at]_vars

(* a check is asked, 2 + 7 days after the detour of its unit was completed *)
C38_Witness ==
    /\ ev.asked # 0
    /\ due[ev.asked].kind = "check"
    /\ now = RevisitDelay + CheckDelay
    /\ due[ev.asked].due_at = now

(* the place of a kind in the order revisit, check, detour *)
KindRank(kind) == CASE kind = "revisit" -> 1 [] kind = "check" -> 2 [] OTHER -> 3

====
